---- MODULE Spec2Model ----
(***************************************************************************)
(* SnapRecords: the orchestrator (SnapRecords.ts), its state store         *)
(* (StateManager), request builder (UrlManager), durable cache gateway     *)
(* (CacheManager), interaction controller (EventManager) and reconciling   *)
(* renderer (SnapRenderer), as one state machine.                          *)
(***************************************************************************)
EXTENDS Integers, Sequences, FiniteSets, TLC

(***************************************************************************)
(* Bounds of the model.                                                    *)
(***************************************************************************)
\* largest value of the retryAttempts option that Init draws
MaxRetryAttempts == 2
\* largest number of loadData chains in flight at once
MaxInFlight == 1
\* the loads that may be in flight at once where loads race
MaxRacing == 2
\* longest page of records a server response carries
MaxRows == 2
\* the cacheExpiry option, in steps of the age of a cache entry
cacheExpiry == 1

(***************************************************************************)
(* Program constants.                                                      *)
(***************************************************************************)
defaultDebounceDelay == 250
RowsPerPageDEFAULT == 10
AllowedRowsPerPage == {10, 20, 50, 100, 250, 500, 1000}

\* the time, in ms, one step of the clock advances
TickMs == 125

Columns == {"id", "name"}
OrderDirection == {"ASC", "DESC"}
RenderType == {"table", "list", "mobile_cards"}
\* identifiers of the records the server may return
Ids == {1, 2, 3}

Min(a, b) == IF a < b THEN a ELSE b
Max(a, b) == IF a > b THEN a ELSE b

VARIABLES
    \* options fixed at construction, the error the constructor threw
    retryAttempts, useCache, configOptions, configError,
    \* the TranslationManager of the instance and its call of get in progress
    translationManager,
    \* CacheManager.preloadNextPage: the calls suspended at an await
    preloads,
    \* SnapRecordsState (the snapshot held in parent.state)
    currentPage, rowsPerPage, filters, sortConditions, data, totalRecords,
    format, translations,
    columns, columnTitles, headerCellClasses, columnWidths, theme, language,
    \* row selection and keyboard position (fields of the instance)
    selectedRows, currentRowIndex, resizing,
    \* StateManager: the pending save, the localStorage item, the page url
    saveTimer, stored, location,
    \* orchestrator: loading flag, filter fingerprint, debounce timers,
    \* loadData invocations suspended at an await
    isLoading, lastFilterHash, timers, loads,
    \* durable cache (IndexedDB table keyed by url)
    cache,
    \* view: error panel, content area, row nodes of the three containers
    errorShown, contentHidden, nodes, header, footers, listeners, overlays,
    \* history: what the last render, the last burst and the last finished
    \* load did; what the last cache invalidation and the last cache read did
    lastRender, burst, lastDone, hist

optVars == <<retryAttempts, useCache, configOptions, configError>>
cfgVars == <<optVars, translationManager, preloads>>
pageVars == <<currentPage, rowsPerPage, filters, sortConditions>>
dataVars == <<data, totalRecords>>
presVars == <<columns, columnTitles, headerCellClasses, columnWidths, theme,
              language>>
stateVars == <<pageVars, dataVars, format, translations, presVars>>
selVars == <<selectedRows, currentRowIndex, resizing>>
persistVars == <<saveTimer, stored, location>>
loadVars == <<isLoading, lastFilterHash, timers, loads, cache>>
viewVars == <<errorShown, contentHidden, nodes, header, footers,
             listeners, overlays, lastRender>>
histVars == <<burst, lastDone, hist>>
vars == <<cfgVars, stateVars, selVars, persistVars, loadVars, viewVars,
          histVars>>

(***************************************************************************)
(* Filters: a mapping column -> value (a function on a set of columns).    *)
(***************************************************************************)
NoFilters == [c \in {} |-> ""]
FilterOf(c, v) == [x \in {c} |-> v]
\* { ...old, ...new }
MergeFilters(old, new) ==
    [c \in (DOMAIN old) \cup (DOMAIN new) |->
        IF c \in DOMAIN new THEN new[c] ELSE old[c]]

(***************************************************************************)
(* utils.sanitizeHTML: the string is parsed as HTML, script and style      *)
(* elements are removed, and the rest is serialised again.                 *)
(***************************************************************************)
sanitizeHTML(str) ==
    CASE str = "a<script>x</script>" -> "a"
      [] str = "<style>y</style>" -> ""
      [] str = "a&b" -> "a&amp;b"
      [] OTHER -> str

(***************************************************************************)
(* UrlManager.getServerParams and buildUrl.  A url is the record of its    *)
(* query parameters; filtering and sorting are absent (the empty set/      *)
(* sequence) when the state has none.                                      *)
(***************************************************************************)
\* Object.fromEntries(sortConditions): one entry per column, the last
\* direction given for it, at the position of the column's first entry
RECURSIVE fromEntries(_)
fromEntries(s) ==
    IF s = <<>> THEN <<>>
    ELSE LET init == fromEntries(SubSeq(s, 1, Len(s) - 1))
             last == s[Len(s)]
         IN  IF \E i \in 1..Len(init) : init[i][1] = last[1]
             THEN [i \in 1..Len(init) |->
                      IF init[i][1] = last[1] THEN last ELSE init[i]]
             ELSE Append(init, last)

\* parameters whose offset is that of the page after
getServerParamsNextOffset(page, rpp, f, s) ==
    [page |-> page, perPage |-> rpp, offset |-> page * rpp]

\* getServerParams(page) on the state given: filtering and sorting are
\* keys of the result only if the state has a filter, a sort condition
getServerParams(page, rpp, f, s) ==
    LET params == [page |-> page,
                   perPage |-> rpp,
                   offset |-> (page - 1) * rpp]
        filtering == {<<c, sanitizeHTML(f[c])>> : c \in DOMAIN f}
        withFiltering == IF DOMAIN f # {}
                         THEN ("filtering" :> filtering) @@ params
                         ELSE params
    IN  IF Len(s) > 0
        THEN ("sorting" :> fromEntries(s)) @@ withFiltering
        ELSE withFiltering

buildUrl(params) ==
    [page |-> params.page,
     perPage |-> params.perPage,
     offset |-> params.offset,
     filtering |-> IF "filtering" \in DOMAIN params
                   THEN {<<e[1], sanitizeHTML(e[2])>> : e \in params.filtering}
                   ELSE {},
     sorting |-> IF "sorting" \in DOMAIN params THEN params.sorting
                 ELSE <<>>]

\* the url loadData builds from the state given
UrlOf(page, rpp, f, s) == buildUrl(getServerParams(page, rpp, f, s))
CurrentUrl == UrlOf(currentPage, rowsPerPage, filters, sortConditions)

\* JSON.stringify(state.filters), the filter fingerprint
stringify(f) == {<<c, f[c]>> : c \in DOMAIN f}
\* the initial lastFilterHash, '' (the fingerprint of no filter set)
EmptyHash == {<<"", "">>}


(***************************************************************************)
(* SnapRenderer: keyed reconciliation.  A row node is the DOM element      *)
(* object (ref), its data-key, its data-index, and whether it carries the  *)
(* class snap-selected and aria-selected="true" (selected).                *)
(***************************************************************************)
\* item.id.toString()
ToStr(id) ==
    CASE id = 1 -> "1" [] id = 2 -> "2" [] id = 3 -> "3" [] OTHER -> "0"

Refs(ns) == {ns[j].ref : j \in 1..Len(ns)}
Keys(ns) == [j \in 1..Len(ns) |-> ns[j].key]
KeysOfData(d) == [j \in 1..Len(d) |-> ToStr(d[j])]
Distinct(s) == \A i, j \in 1..Len(s) : s[i] = s[j] => i = j

\* document.createElement: an element object that did not exist before
FreshRef(used) ==
    CHOOSE r \in 1..(Cardinality(used) + 1) :
        r \notin used /\ \A q \in 1..(r - 1) : q \in used

\* domMap.get(key): querySelectorAll walks the container in document order
\* and Map.set overwrites, so the last element carrying the key is mapped
domMapGet(old, key) ==
    LET at == {j \in 1..Len(old) : old[j].key = key}
    IN  old[CHOOSE j \in at : \A k \in at : k <= j]

\* the data.forEach loop of #reconcileItems from item i on: frag is the
\* fragment built so far, claimed the keys already deleted from domMap
RECURSIVE reconcileLoop(_, _, _, _, _)
reconcileLoop(old, d, i, frag, claimed) ==
    IF i > Len(d) THEN frag
    ELSE LET key == ToStr(d[i])
             has == (\E j \in 1..Len(old) : old[j].key = key)
                        /\ key \notin claimed
             el == IF has
                   THEN \* updateFn: data-index is rewritten, the element kept
                        [domMapGet(old, key) EXCEPT !.index = i - 1]
                   ELSE \* renderer(item, index): a new element
                        [ref |-> FreshRef(Refs(old) \cup Refs(frag)),
                         key |-> key, index |-> i - 1, selected |-> FALSE]
         IN  reconcileLoop(old, d, i + 1, Append(frag, el),
                           IF has THEN claimed \cup {key} ELSE claimed)

\* a reconciliation that never reuses an element (every row is recreated)
reconcileRecreate(old, d) ==
    LET top == Cardinality(Refs(old) \cup (1..Len(old))) + Len(old) + Len(d)
        base == CHOOSE r \in 0..top : \A q \in Refs(old) : q <= r
    IN  [i \in 1..Len(d) |->
            [ref |-> base + i, key |-> ToStr(d[i]), index |-> i - 1,
             selected |-> FALSE]]

\* a reconciliation that appends the fragment without emptying the
\* container: elements no item claimed stay in front of the fragment
reconcileKeepStale(old, d) ==
    LET frag == reconcileLoop(old, d, 1, <<>>, {})
    IN  SelectSeq(old, LAMBDA n : n.ref \notin Refs(frag)) \o frag

\* #reconcileItems: the children of the container after the call
reconcileItems(old, d) == reconcileLoop(old, d, 1, <<>>, {})

\* the value of an array element that was never set, among the class
\* strings (a class string is the sequence of its class names) and among
\* the titles
undefined == <<"undefined">>
undefinedTitle == "undefined"

\* arr[idx] of a JavaScript array of class strings, idx counted from 1
At(arr, idx) == IF idx \in 1..Len(arr) THEN arr[idx] ELSE undefined

\* arr[idx] of a JavaScript array of titles, idx counted from 1
TitleAt(arr, idx) == IF idx \in 1..Len(arr) THEN arr[idx] ELSE undefinedTitle

\* classes?.includes(m)
includes(classes, m) ==
    /\ classes # undefined
    /\ \E k \in 1..Len(classes) : classes[k] = m

\* SnapRecords.headerCellClasses, the field of the instance: no statement
\* of the program assigns it
parentHeaderCellClasses == <<>>

\* #renderTableHeaderContents: the header cells, each with the column it
\* stands for, its title, and whether the title is the sort link
renderTableHeaderContents(cols, titles) ==
    [idx \in 1..Len(cols) |->
        [col |-> cols[idx],
         title |-> TitleAt(titles, idx),
         link |-> ~includes(At(parentHeaderCellClasses, idx), "no-sorting")]]

(***************************************************************************)
(* SnapRenderer: the pagination of the footer.  An item is the button      *)
(* prev or next, a numbered button (label is its page; disabled says it is *)
(* the current page) or an ellipsis.                                       *)
(***************************************************************************)
paginationPageRange == 2
paginationMaxPageDistance == 3
paginationEllipsisDistance == 4
paginationLastPageBuffer == 2
paginationEllipsisLastPageBuffer == 3

\* Math.ceil(totalRecords / rowsPerPage), for rowsPerPage > 0
CeilDiv(a, b) == (a + b - 1) \div b

\* a count of pages that rounds down
totalPagesFloor(total, rpp) == Max(1, total \div rpp)

\* the number of pages the pagination shows:
\* Math.max(1, Math.ceil(totalRecords / rowsPerPage))
totalPages(total, rpp) == Max(1, CeilDiv(total, rpp))

\* #createPaginationButton(text, disabled, type)
createPaginationButton(label, disabled, type) ==
    [kind |-> type, label |-> label, disabled |-> disabled]

ellipsis == [kind |-> "ellipsis", label |-> 0, disabled |-> FALSE]

\* #createPaginationElement: the children of the nav element, in order
createPaginationElement(page, rpp, total) ==
    LET pages == totalPages(total, rpp)
        startPage == Max(1, page - paginationPageRange)
        endPage == Min(pages, page + paginationPageRange)
        first == IF page > paginationMaxPageDistance
                 THEN <<createPaginationButton(1, FALSE, "number")>> \o
                      (IF page > paginationEllipsisDistance
                       THEN <<ellipsis>> ELSE <<>>)
                 ELSE <<>>
        numbers == [k \in 1..Max(0, endPage - startPage + 1) |->
                       createPaginationButton(startPage + k - 1,
                           startPage + k - 1 = page, "number")]
        last == IF endPage < pages - paginationLastPageBuffer
                THEN (IF endPage < pages - paginationEllipsisLastPageBuffer
                      THEN <<ellipsis>> ELSE <<>>) \o
                     <<createPaginationButton(pages, FALSE, "number")>>
                ELSE <<>>
    IN  <<createPaginationButton(0, page = 1, "prev")>> \o first \o
        numbers \o last \o
        <<createPaginationButton(0, page = pages, "next")>>

\* a footer element not created yet
NoFooter == [made |-> FALSE, filled |-> FALSE, page |-> 0, perPage |-> 0,
             total |-> 0, pagination |-> <<>>]

\* the renderer before its first render: no structure is created, and
\* footerElement (the footer of the list or of the cards, named here by the
\* mode it was created for) is null.  The footers are followed where the
\* specification observes them (observed); elsewhere the record stays as
\* it is
NoFooters ==
    [table |-> NoFooter, list |-> NoFooter, mobile_cards |-> NoFooter,
     footerElement |-> "", observed |-> FALSE]

\* #ensureCorrectContainer: the structure of the mode is created if it is
\* not there; #renderTableStructure creates the footer container of the
\* table, #renderListStructure and #renderCardsStructure call
\* #renderNonTableFooter, which creates a footer and assigns footerElement
ensureCorrectContainer(fs, fmt) ==
    IF fs[fmt].made THEN fs
    ELSE [fs EXCEPT ![fmt] = [NoFooter EXCEPT !.made = TRUE],
                    !.footerElement = IF fmt = "table" THEN @ ELSE fmt]

\* the target of #updateFooter: tableElement?.querySelector(footerContainer)
\* ?? footerElement
footerTarget(fs) == IF fs.table.made THEN "table" ELSE fs.footerElement

\* #updateFooter: the target is emptied and given the totals (the page, the
\* rows per page and the total they are computed from) and the pagination
updateFooter(fs, page, rpp, total) ==
    IF footerTarget(fs) = "" THEN fs
    ELSE [fs EXCEPT ![footerTarget(fs)] =
             [made |-> TRUE, filled |-> TRUE, page |-> page, perPage |-> rpp,
              total |-> total,
              pagination |-> createPaginationElement(page, rpp, total)]]

(***************************************************************************)
(* The loading overlay.  overlays.at counts the overlay elements per       *)
(* element they were appended to: the body of the table, the list, the     *)
(* cards container, or the content container where the container of the    *)
(* format does not exist yet.  The counts are kept where observed is set.  *)
(***************************************************************************)
OverlayTargets == {"table", "list", "mobile_cards", "content"}

NoOverlays == [observed |-> FALSE, at |-> [c \in OverlayTargets |-> 0]]

\* showLoading, loading being this.parent.isLoading at the call: the target
\* is the container of the format in force, which exists once a render has
\* got past the test of the translations
showLoading(ov, loading, fmt) ==
    IF loading \/ ~ov.observed THEN ov
    ELSE LET target == IF translations THEN fmt ELSE "content"
         IN  [ov EXCEPT !.at[target] = @ + 1]

\* a hideLoading that leaves the overlay where it is
hideLoadingLate(ov, loading, attached) == {ov}

\* hideLoading, loading being this.parent.isLoading at the call and attached
\* whether the content is still inside the root container:
\* container.querySelector(overlay)?.remove() removes the first overlay of
\* the document order, which is one of those present
hideLoading(ov, loading, attached) ==
    IF ~loading \/ ~ov.observed \/ ~attached
          \/ \A c \in OverlayTargets : ov.at[c] = 0
    THEN {ov}
    ELSE {[ov EXCEPT !.at[c] = @ - 1] : c \in {t \in OverlayTargets :
                                                   ov.at[t] > 0}}

\* container.innerHTML = '' of #reconcileItems on the container of fmt
overlaysAfterRender(ov, fmt) ==
    IF translations /\ ov.observed THEN [ov EXCEPT !.at[fmt] = 0] ELSE ov

\* SnapRenderer.render with the state's format fmt, data d, totalRecords
\* total, columns cols and column titles
renderBody(fmt, d, total, cols, titles) ==
    IF translations
    THEN /\ nodes' = [nodes EXCEPT ![fmt] = reconcileItems(nodes[fmt], d)]
         /\ header' = IF fmt = "table"
                      THEN renderTableHeaderContents(cols, titles)
                      ELSE header
         /\ footers' = IF footers.observed
                       THEN updateFooter(ensureCorrectContainer(footers, fmt),
                                         currentPage, rowsPerPage, total)
                       ELSE footers
         /\ lastRender' = [done |-> TRUE, mode |-> fmt,
                           before |-> nodes[fmt], data |-> d]
    ELSE UNCHANGED <<nodes, header, footers, lastRender>>

\* SnapRenderer.render with the columns given, outside a load
renderColumns(fmt, d, total, cols, titles) ==
    /\ renderBody(fmt, d, total, cols, titles)
    /\ overlays' = overlaysAfterRender(overlays, fmt)

\* SnapRenderer.render where the columns are those of the state
render(fmt, d, total) == renderColumns(fmt, d, total, columns, columnTitles)

\* the end of a load that renders: render, then the hideLoading of finally
renderThenHide(fmt, d, total) ==
    /\ renderBody(fmt, d, total, columns, columnTitles)
    /\ overlays' \in hideLoading(overlaysAfterRender(overlays, fmt),
                                 isLoading, listeners.content)

(***************************************************************************)
(* The root container.  listeners counts its listeners per event class     *)
(* where the specification observes them (observed); elsewhere the counts  *)
(* stay as they are.  addEventListener with a function already registered  *)
(* for the event adds nothing; with a new function it adds one.  content   *)
(* says whether the content container, which holds what the renderer       *)
(* renders, is a child of the root container.  hist.destroy notes the loads   *)
(* in flight and the timeouts set when destroy() was called.                *)
(***************************************************************************)
MaxListeners == 3
MaxPreloads == 1

Unobserved ==
    [observed |-> FALSE, click |-> 0, keydown |-> 0, mousedown |-> 0,
     drag |-> 0, content |-> TRUE]

\* #setupColumnResizing: addEventListener('mousedown', (e) => ...), a new
\* function at each call
setupColumnResizing(count) == count + 1

\* EventManager.setupAllHandlers, on the counts ls
handlersSetUp(ls, draggable) ==
    [ls EXCEPT !.click = 1,
               !.mousedown = setupColumnResizing(ls.mousedown),
               !.drag = IF draggable THEN 1 ELSE ls.drag,
               !.keydown = 1]

setupAllHandlers ==
    /\ listeners.observed => listeners.mousedown < MaxListeners
    /\ listeners' = IF listeners.observed
                    THEN handlersSetUp(listeners, configOptions.draggableColumns)
                    ELSE listeners

(***************************************************************************)
(* TranslationManager.  cache is the set of languages whose bundle is in   *)
(* the in-memory map; call is the invocation of get that is suspended at   *)
(* an await: at the fetch of lang (pc "fetch") or at the retry delay (pc   *)
(* "wait"), in its attempt-th turn of the loop.  requested is the language *)
(* the caller asked for, fetched counts the fetches issued per language    *)
(* since the caller's call, fallbacks the recursive calls, result the      *)
(* language of the bundle returned.  The record is kept up to date when    *)
(* observed is set.                                                        *)
(***************************************************************************)
maxRetries == 3
fallbackLang == "en_US"
Langs == {"en_US", "pt_PT", "es_ES"}

\* what the TranslationManager does not touch
instanceVars == <<optVars, preloads, stateVars, selVars, persistVars, loadVars, viewVars,
                 histVars>>

NoCall == [pc |-> "idle", requested |-> "", lang |-> "", attempt |-> 0,
           fetched |-> [l \in Langs |-> 0], fallbacks |-> 0, result |-> ""]

NoTranslationManager == [observed |-> FALSE, cache |-> {}, call |-> NoCall]

\* TranslationManager.clearCache
clearCache(tm) == IF tm.observed THEN [tm EXCEPT !.cache = {}] ELSE tm

\* get(lang) entered by the call c (the caller's, or the one that fell
\* back): the bundle in the cache is returned, or the loop starts
getEntered(tm, c, lang) ==
    IF lang \in tm.cache
    THEN [tm EXCEPT !.call = [c EXCEPT !.pc = "returned", !.lang = lang,
                                       !.result = lang]]
    ELSE [tm EXCEPT !.call = [c EXCEPT !.pc = "fetch", !.lang = lang,
                                       !.attempt = 1,
                                       !.fetched[lang] = @ + 1]]

\* the caller's get(lang); no other call of the manager is suspended
get(lang) ==
    /\ translationManager.observed
    /\ translationManager.call.pc \in {"idle", "returned", "thrown"}
    /\ translationManager' =
           getEntered(translationManager,
                      [NoCall EXCEPT !.requested = lang], lang)
    /\ UNCHANGED instanceVars

\* the fetch answers ok and the body parses: the bundle is cached under
\* the language asked of the server and returned
fetchTranslationResolve ==
    /\ translationManager.call.pc = "fetch"
    /\ translationManager' =
           [translationManager EXCEPT
               !.cache = @ \cup {translationManager.call.lang},
               !.call.pc = "returned",
               !.call.result = translationManager.call.lang]
    /\ UNCHANGED instanceVars

\* the catch block after the attempt-th fetch failed, with the number of
\* attempts after which it gives the language up
caught(tm, limit) ==
    LET c == tm.call
    IN  IF c.attempt > limit
        THEN IF c.lang = fallbackLang
             THEN [tm EXCEPT !.call.pc = "thrown"]
             ELSE getEntered(tm, [c EXCEPT !.fallbacks = @ + 1],
                             fallbackLang)
        ELSE [tm EXCEPT !.call.pc = "wait"]

caughtLate(tm) == caught(tm, maxRetries + 1)

caughtInTime(tm) == caught(tm, maxRetries)

\* the fetch rejects, answers not ok, or its body does not parse
fetchTranslationFail ==
    /\ translationManager.call.pc = "fetch"
    /\ translationManager' = caughtInTime(translationManager)
    /\ UNCHANGED instanceVars

\* the retry delay is over: the next turn of the loop fetches again
retryDelayOver ==
    /\ translationManager.call.pc = "wait"
    /\ translationManager' =
           [translationManager EXCEPT
               !.call.pc = "fetch",
               !.call.attempt = @ + 1,
               !.call.fetched[translationManager.call.lang] = @ + 1]
    /\ UNCHANGED instanceVars

\* EventManager.destroy, then SnapRenderer.destroy: the listeners removed
\* are those registered with the functions named, which the mousedown
\* listeners are not; container.innerHTML = '' detaches the content
\* container, and the renderer keeps its elements
destroy ==
    /\ listeners.content
    /\ listeners' = IF listeners.observed
                    THEN [listeners EXCEPT !.click = 0, !.keydown = 0,
                                           !.drag = 0, !.content = FALSE]
                    ELSE [listeners EXCEPT !.content = FALSE]
    /\ hist' = [hist EXCEPT !.destroy =
                   [done |-> TRUE, pending |-> loads, timers |-> Len(timers)]]
    /\ translationManager' = clearCache(translationManager)
    /\ overlays' = [overlays EXCEPT !.at = NoOverlays.at]
    /\ UNCHANGED <<optVars, preloads, stateVars, selVars, persistVars, loadVars,
                   errorShown, contentHidden, nodes, header, footers,
                   lastRender, burst, lastDone>>

\* SnapRenderer.showError
showError ==
    IF translations
    THEN errorShown' = TRUE /\ contentHidden' = TRUE
    ELSE UNCHANGED <<errorShown, contentHidden>>

(***************************************************************************)
(* The debounced loader (#debounce, #debouncedLoadData).  timers holds the *)
(* remaining delay of every timeout that is set and has not run.           *)
(***************************************************************************)
\* clearTimeout(timeoutId): the timeout set by the previous call is dropped
clearTimeout(ts) == <<>>

\* the function #debounce returns, applied to the timeouts set so far
debounce(ts) == Append(clearTimeout(ts), defaultDebounceDelay)

RemoveAt(s, i) == SubSeq(s, 1, i - 1) \o SubSeq(s, i + 1, Len(s))

NoUrl == [none |-> TRUE]

\* no timeout is set; no item is stored
NoTimer == [none |-> TRUE]
NoItem == [none |-> TRUE]

\* history of the current burst of load-requesting calls (a call made
\* while the timeout of the previous one is pending continues the burst):
\* the url of the state after the last call, the time since the last call,
\* the loadData runs the debounced loader started since the last call, and
\* the last request a retry built anew and issued while the burst was going on
BurstAfterCall(url, isRetry) ==
    [url |-> url, elapsed |-> 0, by |-> "",
     started |-> 0, startedUrl |-> NoUrl, startedAfter |-> 0,
     issued |-> timers # <<>> /\ burst.issued,
     issuedUrl |-> IF timers # <<>> /\ burst.issued THEN burst.issuedUrl
                   ELSE NoUrl,
     retry |-> isRetry]

\* a retry builds url, which is not the url of the attempt that failed
\* (prev), and issues the request for it at once (no cache read comes
\* between): it is noted if a burst is going on
BurstAfterRequest(url, prev) ==
    IF timers # <<>> /\ url # prev
    THEN [burst EXCEPT !.issued = TRUE, !.issuedUrl = url]
    ELSE burst

\* this.#debouncedLoadData()
debouncedLoadData(url, isRetry) ==
    /\ timers' = debounce(timers)
    /\ burst' = BurstAfterCall(url, isRetry)

(***************************************************************************)
(* StateManager.setState: what follows the recipe.  saveTimer is the       *)
(* timeout of the debounced save with the item it will write, stored the   *)
(* localStorage item, location the query the page url was rewritten to.    *)
(***************************************************************************)
DEBOUNCE_TIMEOUT_MS == 500

\* new Map(): no column has a width set
NoWidths == [c \in {} |-> 0]

\* saveStateToStorage: stateToSave
stateToSave ==
    [columns |-> columns, columnWidths |-> columnWidths,
     sortConditions |-> sortConditions,
     filters |-> filters, currentPage |-> currentPage,
     rowsPerPage |-> rowsPerPage, headerCellClasses |-> headerCellClasses]

\* updateURLState: the parameters of the new url
urlState ==
    [page |-> currentPage, perPage |-> rowsPerPage,
     filtering |-> {<<c, filters[c]>> : c \in {k \in DOMAIN filters :
                                                  filters[k] # ""}},
     sorting |-> sortConditions]

\* saveStateToStorage, called with the new snapshot in place
saveStateToStorage ==
    saveTimer' = IF configOptions.persistState
                 THEN [left |-> DEBOUNCE_TIMEOUT_MS, item |-> stateToSave']
                 ELSE saveTimer

\* updateURLState, called with the new snapshot in place
updateURLState ==
    location' = IF configOptions.usePushState THEN urlState' ELSE location

\* setState after produce has returned: a snapshot that is not the one
\* held (changed) is put in place, saved and shown in the url
setStateDone(changed) ==
    IF changed
    THEN saveStateToStorage /\ updateURLState
    ELSE UNCHANGED <<saveTimer, location>>

\* what every load-requesting call leaves alone
LoadCallFrame ==
    UNCHANGED <<cfgVars, selVars, dataVars, format,
                translations, isLoading, lastFilterHash, loads, cache,
                viewVars, lastDone, hist>>

\* a comparison that takes every value for a new one
differsAlways(current, value) == TRUE

\* the test of the setters: this.state.x !== value
differs(current, value) == current # value

\* what a load-requesting call other than reset leaves alone, a call
\* whose recipe for setState gives a new snapshot or not (changed)
CallFrame(changed) ==
    /\ LoadCallFrame
    /\ UNCHANGED <<presVars, stored>>
    /\ setStateDone(changed)

(***************************************************************************)
(* Public API of SnapRecords (SnapApi passes the arguments through).       *)
(***************************************************************************)
refresh ==
    /\ debouncedLoadData(CurrentUrl, FALSE)
    /\ UNCHANGED pageVars
    /\ CallFrame(FALSE)

\* the retry button of the error panel: () => this.parent.refresh()
retryClick ==
    /\ errorShown
    /\ debouncedLoadData(CurrentUrl, TRUE)
    /\ UNCHANGED pageVars
    /\ CallFrame(FALSE)

gotoPage(page) ==
    /\ currentPage' = page
    /\ UNCHANGED <<rowsPerPage, filters, sortConditions>>
    /\ debouncedLoadData(UrlOf(page, rowsPerPage, filters, sortConditions), FALSE)
    /\ CallFrame(page # currentPage)

\* search(filters, merge): f is an object the caller built for the call, not
\* the one the state holds, so the recipe always gives a new snapshot
search(f, merge) ==
    LET nf == IF merge THEN MergeFilters(filters, f) ELSE f
    IN  /\ currentPage' = 1
        /\ filters' = nf
        /\ UNCHANGED <<rowsPerPage, sortConditions>>
        /\ debouncedLoadData(UrlOf(1, rowsPerPage, nf, sortConditions), FALSE)
        /\ CallFrame(TRUE)

setRowsPerPage(newRowsPerPage) ==
    /\ differs(rowsPerPage, newRowsPerPage)
    /\ rowsPerPage' = newRowsPerPage
    /\ currentPage' = 1
    /\ UNCHANGED <<filters, sortConditions>>
    /\ debouncedLoadData(UrlOf(1, newRowsPerPage, filters, sortConditions), FALSE)
    /\ CallFrame(TRUE)

\* a reset that takes the column keys for the titles
configuredTitlesFromColumns(options) == options.columns

\* configOptions.columnTitles || configOptions.columns || []: the merged
\* options always hold a list of titles, and a list is truthy
configuredTitles(options) == options.columnTitles

\* reset(); burst.by notes that the load requested is the one of reset
reset ==
    /\ currentPage' = 1
    /\ filters' = NoFilters
    /\ sortConditions' = <<>>
    /\ columns' = configOptions.columns
    /\ columnTitles' = configuredTitles(configOptions)
    /\ headerCellClasses' = configOptions.headerCellClasses
    /\ columnWidths' = NoWidths
    /\ UNCHANGED <<rowsPerPage, theme, language>>
    /\ timers' = debounce(timers)
    /\ burst' = [BurstAfterCall(UrlOf(1, rowsPerPage, NoFilters, <<>>), FALSE)
                    EXCEPT !.by = "reset"]
    /\ LoadCallFrame
    \* localStorage.removeItem(storageKey), then setState
    /\ stored' = IF configOptions.persistState THEN NoItem ELSE stored
    /\ setStateDone(TRUE)

\* Object.assign(draft, params): params is a function on a subset of
\* {"currentPage", "rowsPerPage", "filters", "sortConditions"}
updateParams(params) ==
    LET has(k) == k \in DOMAIN params
        np == IF has("currentPage") THEN params["currentPage"] ELSE currentPage
        nr == IF has("rowsPerPage") THEN params["rowsPerPage"] ELSE rowsPerPage
        nf == IF has("filters") THEN params["filters"] ELSE filters
        ns == IF has("sortConditions") THEN params["sortConditions"]
              ELSE sortConditions
    IN  /\ currentPage' = np
        /\ rowsPerPage' = nr
        /\ filters' = nf
        /\ sortConditions' = ns
        /\ debouncedLoadData(UrlOf(np, nr, nf, ns), FALSE)
        /\ CallFrame(\/ has("filters")
                     \/ has("sortConditions")
                     \/ np # currentPage
                     \/ nr # rowsPerPage)

(***************************************************************************)
(* EventManager: sort clicks and page keys.                                *)
(***************************************************************************)
\* sortConditions.findIndex(item => item[0] === col), 0 standing for -1
findIndex(s, col) ==
    IF \E i \in 1..Len(s) : s[i][1] = col
    THEN CHOOSE i \in 1..Len(s) :
             s[i][1] = col /\ \A j \in 1..(i - 1) : s[j][1] # col
    ELSE 0

\* a toggle that starts the whole sort configuration over at every click
sortToggleExclusive(s, col) ==
    LET i == findIndex(s, col)
    IN  IF i = 0 THEN <<<<col, "ASC">>>>
        ELSE IF s[i][2] = "ASC" THEN <<<<col, "DESC">>>>
        ELSE <<>>

\* the recipe #handleSortClick hands to setState
sortToggle(s, col) ==
    LET i == findIndex(s, col)
    IN  IF i = 0 THEN Append(s, <<col, "ASC">>)
        ELSE IF s[i][2] = "ASC" THEN [s EXCEPT ![i] = <<col, "DESC">>]
        ELSE RemoveAt(s, i)

\* a click on the sort link of column col (the header exists in table mode)
handleSortClick(col) ==
    LET ns == sortToggle(sortConditions, col)
    IN  /\ format = "table"
        /\ sortConditions' = ns
        /\ UNCHANGED <<currentPage, rowsPerPage, filters>>
        /\ debouncedLoadData(UrlOf(currentPage, rowsPerPage, filters, ns), FALSE)
        /\ CallFrame(TRUE)

\* #handleDelegatedClick for a click on the title of header cell idx of
\* the visible table: the sort link, when the title is one, takes it
headerClick(idx) ==
    /\ format = "table"
    /\ idx \in 1..Len(header)
    /\ IF header[idx].link
       THEN handleSortClick(header[idx].col)
       ELSE UNCHANGED vars

\* #handleKeyDown, key PageUp
keyPageUp ==
    /\ currentPage > 1
    /\ gotoPage(currentPage - 1)

\* #handleKeyDown, key PageDown
keyPageDown ==
    /\ rowsPerPage > 0
    /\ currentPage < CeilDiv(totalRecords, rowsPerPage)
    /\ gotoPage(currentPage + 1)

(***************************************************************************)
(* Row selection and the keyboard.  selectedRows holds row indexes from 0; *)
(* hist.sel notes the last call of #toggleRowSelection: the index, the set *)
(* before, and what the hook selectionChanged received, if it is defined.  *)
(***************************************************************************)
\* getSelectedRows(): state.data[index] for each index of the set; the
\* record is <<row>>, and <<>> where data has no such index (undefined)
getSelectedRows(selected, d) ==
    {[index |-> i,
      record |-> IF i + 1 \in DOMAIN d THEN <<d[i + 1]>> ELSE <<>>] :
        i \in selected}

\* selectedRows.has(index) ? delete(index) : add(index)
toggle(selected, index) ==
    IF index \in selected THEN selected \ {index} ELSE selected \cup {index}

selFrame ==
    UNCHANGED <<cfgVars, stateVars, persistVars, loadVars, viewVars, burst,
                lastDone>>

\* highlightSelectedRows on the row elements ns of a container: the class
\* and aria-selected of each follow the membership of its data-index
highlightRows(ns, selected) ==
    [j \in 1..Len(ns) |-> [ns[j] EXCEPT !.selected = ns[j].index \in selected]]

\* a highlighting that leaves the elements as they are
highlightNothing(ns, selected) == ns

\* SnapRenderer.highlightSelectedRows: every element with a data-index
\* inside the content container, in the three containers alike; the view
\* follows where it is observed
highlightSelectedRows(selected) ==
    /\ nodes' = IF footers.observed
                THEN [m \in RenderType |-> highlightRows(nodes[m], selected)]
                ELSE nodes
    /\ UNCHANGED <<cfgVars, stateVars, persistVars, loadVars, errorShown,
                   contentHidden, header, footers, listeners, overlays,
                   lastRender, burst, lastDone>>

toggleRowSelection(index) ==
    /\ selectedRows' = toggle(selectedRows, index)
    /\ hist' = [hist EXCEPT !.sel =
                   [n |-> 1 - hist.sel.n, index |-> index,
                    before |-> selectedRows,
                    hooked |-> configOptions.selectionChanged,
                    received |-> IF configOptions.selectionChanged
                                 THEN getSelectedRows(selectedRows', data)
                                 ELSE {}]]
    /\ UNCHANGED <<currentRowIndex, resizing>>
    /\ highlightSelectedRows(selectedRows')

clearSelection ==
    /\ selectedRows' = {}
    /\ UNCHANGED <<currentRowIndex, resizing, hist>>
    /\ highlightSelectedRows({})

\* renderer.navigateToNextRow()
navigateToNextRow ==
    /\ currentRowIndex' = IF Len(data) = 0 THEN currentRowIndex
                          ELSE Min(currentRowIndex + 1, Len(data) - 1)
    /\ UNCHANGED <<selectedRows, resizing, hist>>
    /\ selFrame

\* renderer.navigateToPrevRow()
navigateToPrevRow ==
    /\ currentRowIndex' = IF Len(data) = 0 THEN currentRowIndex
                          ELSE Max(0, currentRowIndex - 1)
    /\ UNCHANGED <<selectedRows, resizing, hist>>
    /\ selFrame

\* the handler returns without an effect, which hist.noop notes
keyIgnored(key) ==
    /\ hist' = [hist EXCEPT !.noop = [n |-> 1 - hist.noop.n, name |-> key]]
    /\ UNCHANGED selVars
    /\ selFrame

\* a second key table that is active whatever the options say
selectionKeysActiveAlways(options) == TRUE

\* if (!this.#parent.selectable) return;
selectionKeysActive(options) == options.selectable

PageKeys == {"PageUp", "PageDown"}
SelectionKeys == {"ArrowDown", "ArrowUp", "Home", "End", "Enter", " "}

\* #handleKeyDown(event), event.key being key
handleKeyDown(key) ==
    IF key = "PageUp"
    THEN IF currentPage > 1 THEN keyPageUp ELSE keyIgnored(key)
    ELSE IF key = "PageDown"
    THEN IF rowsPerPage > 0 /\ currentPage < CeilDiv(totalRecords, rowsPerPage)
         THEN keyPageDown ELSE keyIgnored(key)
    ELSE IF ~selectionKeysActive(configOptions) THEN keyIgnored(key)
    ELSE IF key = "ArrowDown" THEN navigateToNextRow
    ELSE IF key = "ArrowUp" THEN navigateToPrevRow
    ELSE IF key = "Home" THEN reset
    ELSE IF key = "End"
    THEN /\ currentRowIndex' = Len(data) - 1
         /\ UNCHANGED <<selectedRows, resizing, hist>>
         /\ selFrame
    ELSE IF key \in {"Enter", " "}
    THEN IF currentRowIndex >= 0 THEN toggleRowSelection(currentRowIndex)
         ELSE keyIgnored(key)
    ELSE keyIgnored(key)

\* #handleDelegatedClick on the row element whose data-index is index
rowClick(index) ==
    /\ index \in 0..(Len(nodes[format]) - 1)
    /\ IF configOptions.selectable
       THEN toggleRowSelection(index)
       ELSE UNCHANGED vars

(***************************************************************************)
(* Time.                                                                   *)
(***************************************************************************)
\* ms milliseconds pass while a timeout is pending
Tick(ms) ==
    /\ \/ \E i \in 1..Len(timers) : timers[i] > 0
       \/ saveTimer # NoTimer /\ saveTimer.left > 0
    /\ timers' = [i \in 1..Len(timers) |-> Max(0, timers[i] - ms)]
    /\ saveTimer' = IF saveTimer = NoTimer THEN saveTimer
                    ELSE [saveTimer EXCEPT !.left = Max(0, @ - ms)]
    /\ burst' = [burst EXCEPT
                    !.elapsed = Min(@ + ms, defaultDebounceDelay)]
    /\ UNCHANGED <<cfgVars, selVars, stored, location, stateVars, isLoading,
                   lastFilterHash, loads, cache, viewVars, lastDone, hist>>

(***************************************************************************)
(* loadData.  An invocation suspended at an await is a record of loads:    *)
(* its attempt number, the url it built, the await it is at ("cache": the  *)
(* cache read, "fetch": the request, "put": the cache write), and, as      *)
(* history of its chain of attempts, the requests issued, the non-OK       *)
(* responses received, and whether the retry button requested it.          *)
(***************************************************************************)
EmptyCache == [u \in {} |-> 0]

\* a fingerprint check that also takes a sorted request for a new filter set
invalidatesWhenSorted ==
    useCache /\ (stringify(filters) # lastFilterHash \/ sortConditions # <<>>)

\* CacheManager.invalidateCache: its condition
invalidates == useCache /\ stringify(filters) # lastFilterHash

\* CacheManager.invalidateCache.  With the cache in use, hist.start notes
\* what the call did: whether a load ran before, the filters and the sort
\* configuration of this load and whether they differ from those of the
\* load before, whether the cache held entries, and whether it was cleared
\* or left as it was
invalidateCache ==
    /\ cache' = IF invalidates THEN EmptyCache ELSE cache
    /\ lastFilterHash' = IF invalidates THEN stringify(filters)
                         ELSE lastFilterHash
    /\ hist' = IF useCache
               THEN [hist EXCEPT !.start =
                        [seen |-> TRUE,
                         again |-> hist.start.seen,
                         filters |-> filters,
                         sort |-> sortConditions,
                         filtersChanged |-> filters # hist.start.filters,
                         sortChanged |-> sortConditions # hist.start.sort,
                         hadEntries |-> cache # EmptyCache,
                         cleared |-> cache' = EmptyCache,
                         kept |-> cache' = cache]]
               ELSE hist

\* loadData(attempt) up to its first await: the url is built from the
\* state as it is now; without the cache the request is issued at once
loadDataStart(attempt, fetches, http, isRetry) ==
    [attempt |-> attempt, url |-> CurrentUrl,
     pc |-> IF useCache THEN "cache" ELSE "fetch",
     fetches |-> IF useCache THEN fetches ELSE fetches + 1,
     http |-> http, retry |-> isRetry]

\* the calls of lifecycleHooks.preDataLoad (where the hook is given) by the
\* invocation l and the attempts before it: #fetchAndProcessData calls the
\* hook, then fetch, and nothing else calls it
preDataLoadCalls(l) == l.fetches

\* the outcome recorded when an invocation ends without a retry
Done(l, outcome, kind) ==
    [outcome |-> outcome, kind |-> kind, attempt |-> l.attempt,
     fetches |-> l.fetches,
     http |-> IF kind = "http" THEN l.http + 1 ELSE l.http,
     retry |-> l.retry]

\* a retry rule that stops one attempt early
shouldRetryEarlyStop(attempt, kind) ==
    attempt < retryAttempts /\ kind # "http"

\* a retry rule that does not look at the class of the error
shouldRetryAnyError(attempt, kind) ==
    attempt <= retryAttempts

\* the condition of #handleDataLoadError: kind "http" is the
\* SnapRecordsDataError thrown for a non-OK response
shouldRetry(attempt, kind) ==
    attempt <= retryAttempts /\ kind # "http"

\* a loader whose start gives up the loads in flight
loadDataCancelling(i, inFlight) ==
    /\ i \in 1..Len(timers)
    /\ timers[i] = 0
    /\ Len(loads) < inFlight
    /\ timers' = RemoveAt(timers, i)
    /\ isLoading' = TRUE
    /\ invalidateCache
    /\ loads' = <<loadDataStart(1, 0, 0, burst.retry)>>
    /\ burst' = [burst EXCEPT !.started = Min(@ + 1, 2),
                              !.startedUrl = CurrentUrl,
                              !.startedAfter = burst.elapsed]
    /\ UNCHANGED <<cfgVars, selVars, persistVars, stateVars, viewVars,
                   lastDone>>

\* the timeout of the debounced loader runs: loadData() up to its await,
\* whatever loads are in flight (they are at most inFlight in the model)
loadDataCalled(i, inFlight) ==
    /\ i \in 1..Len(timers)
    /\ timers[i] = 0
    /\ Len(loads) < inFlight
    /\ timers' = RemoveAt(timers, i)
    /\ isLoading' = TRUE
    /\ invalidateCache
    /\ loads' = Append(loads, loadDataStart(1, 0, 0, burst.retry))
    /\ burst' = [burst EXCEPT !.started = Min(@ + 1, 2),
                              !.startedUrl = CurrentUrl,
                              !.startedAfter = burst.elapsed]
    /\ overlays' = showLoading(overlays, isLoading, format)
    /\ UNCHANGED <<cfgVars, selVars, persistVars, stateVars, errorShown,
                   contentHidden, nodes, header, footers, listeners,
                   lastRender, lastDone>>

debounceFire(i) == loadDataCalled(i, MaxInFlight)

\* a validity test that does not look at the shape of the entry
isValidCacheAnyShape(entry) ==
    entry.age < cacheExpiry

\* CacheManager.#isValidCache: valid stands for the three shape tests,
\* age for Date.now() - timestamp
isValidCache(entry) ==
    entry.valid /\ entry.age < cacheExpiry

\* db.cache.put(entry)
cachePut(c, entry) ==
    [u \in DOMAIN c \cup {entry.url} |-> IF u = entry.url THEN entry ELSE c[u]]

(***************************************************************************)
(* CacheManager.preloadNextPage.  preloads.calls holds the calls suspended *)
(* at the read of the cache (pc "cache") or at the fetch (pc "fetch");     *)
(* preloads.last notes what the last call or continuation did.  conn is    *)
(* navigator.connection at the call: "none" where the browser has none.    *)
(***************************************************************************)
Connections == {"none", "4g", "saveData", "2g", "slow-2g"}

NoPreloads == [calls |-> <<>>,
               last |-> [outcome |-> "none", conn |-> "none", url |-> NoUrl]]

\* this.preloadNextPageEnabled = options.preloadNextPage ?? false
preloadNextPageEnabled ==
    /\ "preloadNextPage" \in DOMAIN configOptions
    /\ configOptions.preloadNextPage

\* the calls in flight are at most MaxPreloads in the model
preloadRoom == preloadNextPageEnabled => Len(preloads.calls) < MaxPreloads

nextPageAlways(nextPage, total, rpp) == TRUE

\* if (nextPage > totalPages) return, totalPages the rounded-up quotient
nextPageWithin(nextPage, total, rpp) == nextPage <= CeilDiv(total, rpp)

\* preloadNextPage() up to its first await, on the state given
preloadNextPage(ps, conn, page, rpp, total, f, s) ==
    LET nextPage == page + 1
        url == UrlOf(nextPage, rpp, f, s)
    IN  IF conn \in {"saveData", "slow-2g", "2g"}
        THEN [ps EXCEPT !.last = [outcome |-> "slow", conn |-> conn,
                                  url |-> NoUrl]]
        ELSE IF ~nextPageWithin(nextPage, total, rpp)
        THEN [ps EXCEPT !.last = [outcome |-> "nopage", conn |-> conn,
                                  url |-> NoUrl]]
        ELSE [calls |-> Append(ps.calls,
                               [url |-> url,
                                pc |-> IF useCache THEN "cache"
                                       ELSE "fetch"]),
              last |-> [outcome |-> "started", conn |-> conn, url |-> url]]

\* if (this.preloadNextPageEnabled) this.cacheManager.preloadNextPage(), at
\* the end of a load that set the data to a total of total records
preloadAfterLoad(total) ==
    IF preloadNextPageEnabled
    THEN \E conn \in Connections :
             preloads' = preloadNextPage(preloads, conn, currentPage,
                                         rowsPerPage, total, filters,
                                         sortConditions)
    ELSE UNCHANGED preloads

\* what a continuation of preloadNextPage leaves alone
preloadFrame ==
    UNCHANGED <<optVars, translationManager, stateVars, selVars, persistVars,
                isLoading, lastFilterHash, timers, loads, viewVars, histVars>>

\* getCachedData(url) of the preload resolves: a valid entry that has not
\* expired ends the preload, anything else goes on to fetch(url)
preloadReadDone(j, timedOut) ==
    /\ j \in 1..Len(preloads.calls)
    /\ preloads.calls[j].pc = "cache"
    /\ LET url == preloads.calls[j].url
           cached == /\ ~timedOut
                     /\ url \in DOMAIN cache
                     /\ isValidCache(cache[url])
           hit == cached /\ cache[url].age < cacheExpiry
       IN  preloads' =
               IF hit
               THEN [calls |-> RemoveAt(preloads.calls, j),
                     last |-> [outcome |-> "cached", conn |-> "none",
                               url |-> url]]
               ELSE [preloads EXCEPT !.calls[j].pc = "fetch"]
    /\ UNCHANGED cache
    /\ preloadFrame

\* the fetch of the preload resolves with an OK response whose body is
\* {data: rows, totalRecords: total}: cacheData(url, entry) where the cache
\* is in use
preloadResolve(j, rows, total) ==
    /\ j \in 1..Len(preloads.calls)
    /\ preloads.calls[j].pc = "fetch"
    /\ LET url == preloads.calls[j].url
       IN  /\ cache' = IF useCache
                       THEN cachePut(cache, [url |-> url, data |-> rows,
                                             totalRecords |-> total,
                                             age |-> 0, valid |-> TRUE])
                       ELSE cache
           /\ preloads' = [calls |-> RemoveAt(preloads.calls, j),
                           last |-> [outcome |-> IF useCache THEN "stored"
                                                 ELSE "fetched",
                                     conn |-> "none", url |-> url]]
    /\ preloadFrame

\* the fetch of the preload rejects, answers not OK, or its body does not
\* parse: nothing is stored, the error is logged
preloadFail(j) ==
    /\ j \in 1..Len(preloads.calls)
    /\ preloads.calls[j].pc = "fetch"
    /\ preloads' = [calls |-> RemoveAt(preloads.calls, j),
                    last |-> [outcome |-> "failed", conn |-> "none",
                              url |-> preloads.calls[j].url]]
    /\ UNCHANGED cache
    /\ preloadFrame

\* getCachedData resolves, after the 5 s timeout of the read if timedOut.
\* hist.read notes the read: the url, whether an entry was stored for it,
\* its shape and age, and whether the read was taken as a hit
cacheReadDone(i, timedOut) ==
    /\ i \in 1..Len(loads)
    /\ loads[i].pc = "cache"
    /\ UNCHANGED <<optVars, translationManager, selVars, stored, pageVars, format, translations,
                   presVars, lastFilterHash, timers, cache, errorShown,
                   contentHidden, burst>>
    /\ LET l == loads[i]
           present == l.url \in DOMAIN cache
           cached == ~timedOut /\ present /\ isValidCache(cache[l.url])
           \* loadData: cached && Date.now() - cached.timestamp < cacheExpiry
           hit == cached /\ cache[l.url].age < cacheExpiry
       IN  /\ hist' = [hist EXCEPT !.read =
                          [n |-> 1 - hist.read.n, url |-> l.url,
                           present |-> present,
                           valid |-> present /\ cache[l.url].valid,
                           age |-> IF present THEN cache[l.url].age ELSE 0,
                           timedOut |-> timedOut, hit |-> hit]]
           /\ IF hit
              THEN \* #handleCachedResponse, then finally
                   /\ data' = cache[l.url].data
                   /\ totalRecords' = cache[l.url].totalRecords
                   /\ renderThenHide(format, cache[l.url].data,
                                     cache[l.url].totalRecords)
                   /\ setupAllHandlers
                   /\ loads' = RemoveAt(loads, i)
                   /\ isLoading' = FALSE
                   /\ lastDone' = Done(l, "cached", "none")
                   /\ setStateDone(TRUE)
                   /\ preloadRoom
                   /\ preloadAfterLoad(cache[l.url].totalRecords)
              ELSE \* #fetchAndProcessData up to await fetch(url)
                   /\ loads' = [loads EXCEPT ![i].pc = "fetch",
                                             ![i].fetches = @ + 1]
                   /\ UNCHANGED <<data, totalRecords, nodes, header,
                                  footers, listeners, overlays, lastRender,
                                  isLoading, lastDone, saveTimer, location,
                                  preloads>>

\* time passes: the entries of the cache grow older by one step (an age
\* beyond cacheExpiry is not told apart from cacheExpiry)
cacheAge ==
    /\ \E u \in DOMAIN cache : cache[u].age < cacheExpiry
    /\ cache' = [u \in DOMAIN cache |->
                    [cache[u] EXCEPT !.age = Min(@ + 1, cacheExpiry)]]
    /\ UNCHANGED <<cfgVars, selVars, persistVars, stateVars, isLoading,
                   lastFilterHash, timers, loads, viewVars, histVars>>

\* another writer of the database (the table is shared by every page of
\* the origin) leaves a payload of another shape under url u
cacheTamper(u) ==
    /\ u \in DOMAIN cache
    /\ cache[u].valid
    /\ cache' = [cache EXCEPT ![u].valid = FALSE]
    /\ UNCHANGED <<cfgVars, selVars, persistVars, stateVars, isLoading,
                   lastFilterHash, timers, loads, viewVars, histVars>>

\* the request resolves with an OK response whose body is {data: rows,
\* totalRecords: total}: #processSuccessfulResponse, then finally
fetchResolve(i, rows, total) ==
    /\ i \in 1..Len(loads)
    /\ loads[i].pc = "fetch"
    /\ data' = rows
    /\ totalRecords' = total
    /\ IF useCache
       THEN /\ cache' = cachePut(cache, [url |-> loads[i].url, data |-> rows,
                                         totalRecords |-> total,
                                         age |-> 0, valid |-> TRUE])
            /\ loads' = [loads EXCEPT ![i].pc = "put"]
            /\ UNCHANGED <<nodes, header, footers, listeners, overlays,
                           lastRender, isLoading, lastDone, preloads>>
       ELSE /\ renderThenHide(format, rows, total)
            /\ setupAllHandlers
            /\ loads' = RemoveAt(loads, i)
            /\ isLoading' = FALSE
            /\ lastDone' = Done(loads[i], "ok", "none")
            /\ UNCHANGED cache
            /\ preloadRoom
            /\ preloadAfterLoad(total)
    /\ UNCHANGED <<optVars, translationManager, selVars, stored, pageVars, format, translations,
                   presVars, lastFilterHash, timers, errorShown,
                   contentHidden, burst, hist>>
    /\ setStateDone(TRUE)

\* cacheData resolves: the rest of #processSuccessfulResponse, then finally
cachePutDone(i) ==
    /\ i \in 1..Len(loads)
    /\ loads[i].pc = "put"
    /\ renderThenHide(format, data, totalRecords)
    /\ setupAllHandlers
    /\ loads' = RemoveAt(loads, i)
    /\ isLoading' = FALSE
    /\ lastDone' = Done(loads[i], "ok", "none")
    /\ preloadRoom
    /\ preloadAfterLoad(totalRecords)
    /\ UNCHANGED <<optVars, translationManager, selVars, persistVars,
                   stateVars, lastFilterHash, timers, cache, errorShown,
                   contentHidden, burst, hist>>

\* the request fails: kind "transient" is a rejected fetch or an unreadable
\* body, kind "http" a response that is not OK.  catch, then finally
fetchFail(i, kind) ==
    /\ i \in 1..Len(loads)
    /\ loads[i].pc = "fetch"
    /\ LET l == loads[i]
       IN  IF shouldRetry(l.attempt, kind)
           THEN \* this.loadData(_attempt + 1) runs up to its await
                /\ invalidateCache
                /\ loads' = [loads EXCEPT ![i] =
                                loadDataStart(l.attempt + 1, l.fetches,
                                    IF kind = "http" THEN l.http + 1 ELSE l.http,
                                    l.retry)]
                /\ burst' = IF useCache THEN burst
                            ELSE BurstAfterRequest(CurrentUrl, l.url)
                \* its showLoading, then the hideLoading of finally
                /\ overlays' \in hideLoading(
                                     showLoading(overlays, isLoading, format),
                                     TRUE, listeners.content)
                /\ UNCHANGED <<errorShown, contentHidden, lastDone>>
           ELSE /\ showError
                /\ loads' = RemoveAt(loads, i)
                /\ lastDone' = Done(l, "error", kind)
                /\ overlays' \in hideLoading(overlays, isLoading,
                                             listeners.content)
                /\ UNCHANGED <<cache, lastFilterHash, burst, hist>>
    \* finally: hideLoading
    /\ isLoading' = FALSE
    /\ UNCHANGED <<cfgVars, selVars, persistVars, stateVars, timers, nodes,
                   header, footers, listeners, lastRender>>

\* setRenderMode(mode)
setRenderMode(mode) ==
    /\ differs(format, mode)
    /\ format' = mode
    /\ render(mode, data, totalRecords)
    /\ setupAllHandlers
    /\ UNCHANGED <<cfgVars, selVars, stored, pageVars, dataVars,
                   translations, presVars, loadVars, errorShown,
                   contentHidden, histVars>>
    /\ setStateDone(TRUE)

\* setTheme(theme): the class of the container follows the state
setTheme(newTheme) ==
    /\ differs(theme, newTheme)
    /\ theme' = newTheme
    /\ UNCHANGED <<cfgVars, selVars, stored, pageVars, dataVars, format,
                   translations, columns, columnTitles, headerCellClasses,
                   columnWidths,
                   language, loadVars, viewVars, histVars>>
    /\ setStateDone(TRUE)

\* setLanguage(newLanguage), the translations of the language at hand
\* (TranslationManager resolves at once)
setLanguage(newLanguage) ==
    /\ differs(language, newLanguage)
    /\ language' = newLanguage
    /\ translations' = TRUE
    /\ render(format, data, totalRecords)
    /\ setupAllHandlers
    /\ UNCHANGED <<cfgVars, selVars, stored, pageVars, dataVars, format,
                   columns, columnTitles, headerCellClasses, columnWidths,
                   theme,
                   loadVars, errorShown, contentHidden, histVars>>
    /\ setStateDone(TRUE)

\* the value in force for the setter of the name given
InForce(name) ==
    CASE name = "setTheme" -> theme
      [] name = "setRenderMode" -> format
      [] name = "setLanguage" -> language

\* a call of setTheme, setRenderMode or setLanguage with a value: the
\* setter acts, or finds the value in force and returns, which hist.noop
\* notes
setterCall(name, value) ==
    IF differs(InForce(name), value)
    THEN CASE name = "setTheme" -> setTheme(value)
           [] name = "setRenderMode" -> setRenderMode(value)
           [] name = "setLanguage" -> setLanguage(value)
    ELSE /\ hist' = [hist EXCEPT !.noop =
                        [n |-> 1 - hist.noop.n, name |-> name]]
         /\ UNCHANGED <<cfgVars, stateVars, selVars, persistVars, loadVars,
                        viewVars, burst, lastDone>>

\* a call of setRowsPerPage with a value
setRowsPerPageCall(newRowsPerPage) ==
    IF differs(rowsPerPage, newRowsPerPage)
    THEN setRowsPerPage(newRowsPerPage)
    ELSE /\ hist' = [hist EXCEPT !.noop =
                        [n |-> 1 - hist.noop.n, name |-> "setRowsPerPage"]]
         /\ UNCHANGED <<cfgVars, stateVars, selVars, persistVars, loadVars,
                        viewVars, burst, lastDone>>

(***************************************************************************)
(* setState called with a recipe of the caller's, and the debounced save.  *)
(***************************************************************************)
\* a recipe run on the state itself: what it assigned before it threw stays
produceInPlace(recipe) ==
    [currentPage |-> recipe.currentPage, threw |-> recipe.throws]

\* produce(state, updater) for a recipe that assigns draft.currentPage and
\* then throws or returns: the draft of a recipe that throws is dropped
produce(recipe) ==
    [currentPage |-> IF recipe.throws THEN currentPage
                     ELSE recipe.currentPage,
     threw |-> recipe.throws]

\* StateManager.setState(updater).  hist.set notes the call: the page the
\* recipe assigned and whether it threw
setState(recipe) ==
    LET next == produce(recipe)
    IN  /\ currentPage' = next.currentPage
        /\ hist' = [hist EXCEPT !.set =
                       [n |-> 1 - hist.set.n,
                        currentPage |-> recipe.currentPage,
                        threw |-> next.threw]]
        /\ UNCHANGED <<cfgVars, selVars, stored, rowsPerPage, filters,
                       sortConditions, dataVars, format, translations,
                       presVars, loadVars, viewVars, burst, lastDone>>
        /\ setStateDone(~next.threw /\ next.currentPage # currentPage)

\* the timeout of saveStateToStorage runs: localStorage.setItem stores the
\* item, or throws (quota, storage disabled), which is caught and logged.
\* hist.save notes the run
saveFire(fails) ==
    /\ saveTimer # NoTimer
    /\ saveTimer.left = 0
    /\ stored' = IF fails THEN stored ELSE saveTimer.item
    /\ saveTimer' = NoTimer
    /\ hist' = [hist EXCEPT !.save =
                   [n |-> 1 - hist.save.n, failed |-> fails,
                    logged |-> fails]]
    /\ UNCHANGED <<cfgVars, stateVars, selVars, location, loadVars,
                   viewVars, burst, lastDone>>

(***************************************************************************)
(* Column reordering.                                                      *)
(***************************************************************************)
\* arr.indexOf(x), 0 standing for -1
indexOf(arr, x) ==
    IF \E i \in 1..Len(arr) : arr[i] = x
    THEN CHOOSE i \in 1..Len(arr) :
             arr[i] = x /\ \A j \in 1..(i - 1) : arr[j] # x
    ELSE 0

\* an exchange of the elements at si and ti
spliceSwap(arr, si, ti, undef) ==
    [k \in 1..Len(arr) |->
        IF k = si THEN arr[ti] ELSE IF k = ti THEN arr[si] ELSE arr[k]]

\* const [x] = arr.splice(si, 1); arr.splice(ti, 0, x), for an array that
\* may be shorter than si or ti; indices counted from 1
spliceMove(arr, si, ti, undef) ==
    LET x == IF si <= Len(arr) THEN arr[si] ELSE undef
        rest == IF si <= Len(arr) THEN RemoveAt(arr, si) ELSE arr
        at == Min(ti, Len(rest) + 1)
    IN  SubSeq(rest, 1, at - 1) \o <<x>> \o SubSeq(rest, at, Len(rest))

\* reorderColumns(sourceColId, targetColId): the recipe for setState, then
\* the render.  hist.drop notes the call
reorderColumns(sourceColId, targetColId) ==
    LET sourceIndex == indexOf(columns, sourceColId)
        targetIndex == indexOf(columns, targetColId)
        found == sourceIndex # 0 /\ targetIndex # 0
    IN  /\ columns' = IF found
                      THEN spliceMove(columns, sourceIndex, targetIndex,
                                      sourceColId)
                      ELSE columns
        /\ columnTitles' = IF found
                           THEN spliceMove(columnTitles, sourceIndex,
                                           targetIndex, undefinedTitle)
                           ELSE columnTitles
        /\ headerCellClasses' = IF found /\ Len(headerCellClasses) > 0
                                THEN spliceMove(headerCellClasses, sourceIndex,
                                                targetIndex, undefined)
                                ELSE headerCellClasses
        /\ renderColumns(format, data, totalRecords, columns', columnTitles')
        /\ setupAllHandlers
        /\ hist' = [hist EXCEPT !.drop =
                       [done |-> TRUE, source |-> sourceColId,
                        target |-> targetColId, before |-> columns,
                        after |-> columns']]
        /\ UNCHANGED <<cfgVars, selVars, stored, pageVars, dataVars,
                       format, translations, columnWidths, theme, language,
                       loadVars, errorShown, contentHidden, burst, lastDone>>
        /\ setStateDone(found)

\* the mousedown listeners of the container run on a pointer-down on the
\* resize handle of column columnId: #startResize
startResize(columnId) ==
    /\ format = "table"
    /\ \E i \in 1..Len(header) : header[i].col = columnId
    /\ resizing' = columnId
    /\ hist' = [hist EXCEPT !.resize =
                   [n |-> 1 - hist.resize.n, column |-> columnId,
                    starts |-> listeners.mousedown]]
    /\ UNCHANGED <<cfgVars, stateVars, selectedRows, currentRowIndex,
                   persistVars, loadVars, viewVars, burst, lastDone>>

\* #handleResize: the pointer moves to where the column is width wide
handleResize(width) ==
    /\ resizing # ""
    /\ columnWidths' = [c \in DOMAIN columnWidths \cup {resizing} |->
                           IF c = resizing THEN width ELSE columnWidths[c]]
    /\ UNCHANGED <<cfgVars, selVars, stored, pageVars, dataVars, format,
                   translations, columns, columnTitles, headerCellClasses,
                   theme, language, loadVars, viewVars, histVars>>
    /\ setStateDone(columnWidths' # columnWidths)

\* #stopResize: the pointer is released
stopResize ==
    /\ resizing # ""
    /\ resizing' = ""
    /\ saveTimer' = IF configOptions.persistState
                    THEN [left |-> DEBOUNCE_TIMEOUT_MS, item |-> stateToSave]
                    ELSE saveTimer
    /\ UNCHANGED <<cfgVars, stateVars, selectedRows, currentRowIndex,
                   stored, location, loadVars, viewVars, histVars>>

\* #handleDrop: the header cell of column sourceColId is dropped on the
\* header cell of column targetColId
handleDrop(sourceColId, targetColId) ==
    /\ configOptions.draggableColumns
    /\ format = "table"
    /\ \E i \in 1..Len(header) : header[i].col = sourceColId
    /\ \E i \in 1..Len(header) : header[i].col = targetColId
    /\ IF sourceColId # targetColId
       THEN reorderColumns(sourceColId, targetColId)
       ELSE /\ hist' = [hist EXCEPT !.drop =
                           [done |-> TRUE, source |-> sourceColId,
                            target |-> targetColId, before |-> columns,
                            after |-> columns]]
            /\ UNCHANGED <<cfgVars, stateVars, selVars, persistVars,
                           loadVars, viewVars, burst, lastDone>>

(***************************************************************************)
(* The state once the constructor and #initialize have run: the options    *)
(* are in the state, the translations are loaded, the empty data set has   *)
(* been rendered and the first debounced load is requested.                *)
(***************************************************************************)
\* #applyStoredColumnOrder: the columns, titles and header classes of the
\* draft once the column order saved is applied to those configured
applyStoredColumnOrder(cols, titles, classes, savedColumns) ==
    LET inCols(c) == \E k \in 1..Len(cols) : cols[k] = c
        validSavedColumns == SelectSeq(savedColumns, inCols)
        inSaved(c) ==
            \E k \in 1..Len(validSavedColumns) : validSavedColumns[k] = c
        notSaved(c) == ~inSaved(c)
        newConfiguredColumns == SelectSeq(cols, notSaved)
        newColumnsOrder == validSavedColumns \o newConfiguredColumns
        hasClass(c) == Len(classes) > indexOf(cols, c) - 1
        withClass == SelectSeq(newColumnsOrder, hasClass)
    IN  [columns |-> newColumnsOrder,
         columnTitles |->
             [k \in 1..Len(newColumnsOrder) |->
                 TitleAt(titles, indexOf(cols, newColumnsOrder[k]))],
         headerCellClasses |->
             [k \in 1..Len(withClass) |->
                 classes[indexOf(cols, withClass[k])]]]

\* loadStateFromStorage on the state the constructor built from the
\* options opt, with the localStorage item (the item holds values of the
\* types the function tests for)
loadStateFromStorage(opt, page, rpp, item) ==
    LET restore == opt.persistState /\ item # NoItem
        order == IF restore
                 THEN applyStoredColumnOrder(opt.columns, opt.columnTitles,
                          opt.headerCellClasses, item.columns)
                 ELSE [columns |-> opt.columns,
                       columnTitles |-> opt.columnTitles,
                       headerCellClasses |-> opt.headerCellClasses]
    IN  [columns |-> order.columns,
         columnTitles |-> order.columnTitles,
         headerCellClasses |-> order.headerCellClasses,
         columnWidths |-> IF restore THEN item.columnWidths ELSE NoWidths,
         sortConditions |-> IF restore THEN item.sortConditions ELSE <<>>,
         filters |-> IF restore THEN item.filters ELSE NoFilters,
         currentPage |-> IF restore THEN Max(1, item.currentPage) ELSE page,
         rowsPerPage |-> IF restore /\ item.rowsPerPage \in AllowedRowsPerPage
                         THEN item.rowsPerPage ELSE rpp]

\* the history of an instance no step has acted on
NoHistory ==
    [noop |-> [n |-> 0, name |-> ""],
    resize |-> [n |-> 0, column |-> "", starts |-> 0],
    sel |-> [n |-> 0, index |-> 0 - 1, before |-> {},
             hooked |-> FALSE, received |-> {}],
    set |-> [n |-> 0, currentPage |-> 0, threw |-> FALSE],
    save |-> [n |-> 0, failed |-> FALSE, logged |-> FALSE],
    drop |-> [done |-> FALSE, source |-> "", target |-> "",
              before |-> <<>>, after |-> <<>>],
    start |-> [seen |-> FALSE, again |-> FALSE,
               filters |-> NoFilters, sort |-> <<>>,
               filtersChanged |-> FALSE, sortChanged |-> FALSE,
               hadEntries |-> FALSE, cleared |-> FALSE,
               kept |-> FALSE],
    read |-> [n |-> 0, url |-> NoUrl, present |-> FALSE,
              valid |-> FALSE, age |-> 0, timedOut |-> FALSE,
              hit |-> FALSE],
    reload |-> [done |-> FALSE, item |-> NoItem],
    destroy |-> [done |-> FALSE, pending |-> <<>>, timers |-> 0]]

InitAspects(ras, caching, pages, rpps, fmts, opts, items, aspects) ==
    /\ retryAttempts \in ras
    /\ useCache \in caching
    /\ configOptions \in opts
    /\ configError = ""
    /\ translationManager =
           IF "translations" \in aspects
           THEN [NoTranslationManager EXCEPT !.observed = TRUE,
                                             !.cache = {"en_US"}]
           ELSE NoTranslationManager
    /\ preloads = NoPreloads
    /\ stored \in items
    /\ \E page \in pages, rpp \in rpps :
          LET loaded == loadStateFromStorage(configOptions, page, rpp, stored)
          IN  /\ columns = loaded.columns
              /\ columnTitles = loaded.columnTitles
              /\ headerCellClasses = loaded.headerCellClasses
              /\ columnWidths = loaded.columnWidths
              /\ sortConditions = loaded.sortConditions
              /\ filters = loaded.filters
              /\ currentPage = loaded.currentPage
              /\ rowsPerPage = loaded.rowsPerPage
    /\ theme = "default"
    /\ language = "en_US"
    /\ selectedRows = {}
    /\ currentRowIndex = -1
    /\ resizing = ""
    /\ listeners = IF "listeners" \in aspects
                   THEN handlersSetUp([Unobserved EXCEPT !.observed = TRUE],
                                      configOptions.draggableColumns)
                   ELSE Unobserved
    /\ overlays = IF "overlays" \in aspects
                  THEN [NoOverlays EXCEPT !.observed = TRUE]
                  ELSE NoOverlays
    \* #initialize: setState puts the translations in place
    /\ saveTimer = IF configOptions.persistState
                   THEN [left |-> DEBOUNCE_TIMEOUT_MS, item |-> stateToSave]
                   ELSE NoTimer
    /\ location = IF configOptions.usePushState THEN urlState ELSE NoItem
    /\ data = <<>>
    /\ totalRecords = 0
    /\ format \in fmts
    /\ translations = TRUE
    /\ isLoading = FALSE
    /\ lastFilterHash = EmptyHash
    /\ timers = <<defaultDebounceDelay>>
    /\ loads = <<>>
    /\ cache = EmptyCache
    /\ errorShown = FALSE
    /\ contentHidden = FALSE
    /\ nodes = [m \in RenderType |-> <<>>]
    /\ header = IF format = "table"
                THEN renderTableHeaderContents(columns, columnTitles)
                ELSE <<>>
    /\ footers = IF "footers" \in aspects
                 THEN updateFooter(ensureCorrectContainer(
                          [NoFooters EXCEPT !.observed = TRUE], format),
                          currentPage, rowsPerPage, 0)
                 ELSE NoFooters
    /\ lastRender = [done |-> TRUE, mode |-> format, before |-> <<>>,
                     data |-> <<>>]
    /\ burst = [url |-> CurrentUrl,
                elapsed |-> 0, by |-> "", started |-> 0, startedUrl |-> NoUrl,
                startedAfter |-> 0, issued |-> FALSE, issuedUrl |-> NoUrl,
                retry |-> FALSE]
    /\ lastDone = [outcome |-> "none", kind |-> "none", attempt |-> 0,
                   fetches |-> 0, http |-> 0, retry |-> FALSE]
    /\ hist = NoHistory

\* the state after construction with the listeners, the footers and the
\* TranslationManager observed, or with nothing observed
InitObserved(ras, caching, pages, rpps, fmts, opts, items, observed) ==
    InitAspects(ras, caching, pages, rpps, fmts, opts, items,
                IF observed THEN {"listeners", "footers", "translations"}
                ELSE {})

InitStored(ras, caching, pages, rpps, fmts, opts, items) ==
    InitObserved(ras, caching, pages, rpps, fmts, opts, items, FALSE)

\* the options of the test suite, every optional one at its default
DefaultOptions ==
    [columns |-> <<"id", "name">>, columnTitles |-> <<"ID", "Name">>,
     headerCellClasses |-> <<>>, selectable |-> FALSE,
     draggableColumns |-> FALSE, persistState |-> FALSE,
     usePushState |-> FALSE, selectionChanged |-> FALSE,
     preloadNextPage |-> FALSE]

InitOptions(ras, caching, pages, rpps, fmts, opts) ==
    InitStored(ras, caching, pages, rpps, fmts, opts, {NoItem})

InitWith(ras, caching, pages, rpps, fmts) ==
    InitOptions(ras, caching, pages, rpps, fmts, {DefaultOptions})

\* the page is loaded again: the instance at hand is gone with its timers
\* and its loads, and the constructor and #initialize run with the options
\* given and the item localStorage holds.  hist.reload notes the item read
reload(options) ==
    LET loaded == loadStateFromStorage(options, 1, RowsPerPageDEFAULT, stored)
    IN  /\ UNCHANGED <<retryAttempts, useCache, configError, stored, format>>
        /\ preloads' = NoPreloads
        /\ translationManager' =
               IF translationManager.observed
               THEN [NoTranslationManager EXCEPT !.observed = TRUE,
                                                 !.cache = {"en_US"}]
               ELSE NoTranslationManager
        /\ configOptions' = options
        /\ columns' = loaded.columns
        /\ columnTitles' = loaded.columnTitles
        /\ headerCellClasses' = loaded.headerCellClasses
        /\ columnWidths' = loaded.columnWidths
        /\ sortConditions' = loaded.sortConditions
        /\ filters' = loaded.filters
        /\ currentPage' = loaded.currentPage
        /\ rowsPerPage' = loaded.rowsPerPage
        /\ theme' = "default"
        /\ language' = "en_US"
        /\ selectedRows' = {}
        /\ currentRowIndex' = 0 - 1
        /\ resizing' = ""
        /\ listeners' = IF listeners.observed
                        THEN handlersSetUp([Unobserved EXCEPT !.observed = TRUE],
                                           options.draggableColumns)
                        ELSE Unobserved
        /\ overlays' = [NoOverlays EXCEPT !.observed = overlays.observed]
        /\ saveTimer' = IF options.persistState
                        THEN [left |-> DEBOUNCE_TIMEOUT_MS, item |-> stateToSave']
                        ELSE NoTimer
        /\ location' = IF options.usePushState THEN urlState' ELSE NoItem
        /\ data' = <<>>
        /\ totalRecords' = 0
        /\ translations' = TRUE
        /\ isLoading' = FALSE
        /\ lastFilterHash' = EmptyHash
        /\ timers' = <<defaultDebounceDelay>>
        /\ loads' = <<>>
        /\ cache' = cache
        /\ errorShown' = FALSE
        /\ contentHidden' = FALSE
        /\ nodes' = [m \in RenderType |-> <<>>]
        /\ header' = IF format = "table"
                     THEN renderTableHeaderContents(loaded.columns,
                                                    loaded.columnTitles)
                     ELSE <<>>
        /\ footers' = IF footers.observed
                       THEN updateFooter(ensureCorrectContainer(
                                [NoFooters EXCEPT !.observed = TRUE], format),
                                loaded.currentPage, loaded.rowsPerPage, 0)
                       ELSE NoFooters
        /\ lastRender' = [done |-> TRUE, mode |-> format, before |-> <<>>,
                          data |-> <<>>]
        /\ burst' = [url |-> CurrentUrl', elapsed |-> 0, by |-> "",
                     started |-> 0, startedUrl |-> NoUrl, startedAfter |-> 0,
                     issued |-> FALSE, issuedUrl |-> NoUrl, retry |-> FALSE]
        /\ lastDone' = [outcome |-> "none", kind |-> "none", attempt |-> 0,
                        fetches |-> 0, http |-> 0, retry |-> FALSE]
        /\ hist' = [NoHistory EXCEPT !.reload = [done |-> TRUE, item |-> stored]]

(***************************************************************************)
(* Spec: the load pipeline without the cache (useCache is false by         *)
(* default): load requests, the debounce timer, and every outcome of the   *)
(* request, for each value of retryAttempts.                               *)
(***************************************************************************)
LoadPages == {1, 2}
NameFilter == FilterOf("name", "a")

Init == InitWith(0..MaxRetryAttempts, {FALSE}, {1}, {RowsPerPageDEFAULT},
                 {"table"})

Next ==
    \/ refresh
    \/ retryClick
    \/ \E n \in LoadPages : gotoPage(n)
    \/ Tick(TickMs)
    \/ \E i \in 1..Len(timers) : debounceFire(i)
    \/ \E i \in 1..Len(loads) : fetchResolve(i, <<>>, 0)
    \/ \E i \in 1..Len(loads), kind \in {"transient", "http"} :
           fetchFail(i, kind)

Spec == Init /\ [][Next]_vars

(***************************************************************************)
(* SpecNav: page and page-size navigation through the API and the page     *)
(* keys, with a server that holds 95 records.                              *)
(***************************************************************************)
PageInputs == {0, 2, 11}
RowsInputs == {15, 20}
ParamInputs ==
    {[k \in {"currentPage"} |-> 0 - 1],
     [k \in {"rowsPerPage"} |-> 15],
     [k \in {"currentPage", "rowsPerPage"} |->
         IF k = "currentPage" THEN 3 ELSE RowsPerPageDEFAULT]}

InitNav == InitWith({0}, {FALSE}, {1}, {RowsPerPageDEFAULT}, {"table"})

NextNav ==
    \/ \E n \in PageInputs : gotoPage(n)
    \/ \E n \in RowsInputs : setRowsPerPage(n)
    \/ \E p \in ParamInputs : updateParams(p)
    \/ keyPageUp
    \/ keyPageDown
    \/ Tick(TickMs)
    \/ \E i \in 1..Len(timers) : debounceFire(i)
    \/ \E i \in 1..Len(loads) : fetchResolve(i, <<>>, 95)

SpecNav == InitNav /\ [][NextNav]_vars

(***************************************************************************)
(* SpecSort: the sort links of the table header, with the calls that       *)
(* replace or clear the sort configuration and the switch of render mode   *)
(* that takes the header away.                                             *)
(***************************************************************************)
SortInputs ==
    {<<<<"name", "DESC">>>>,
     <<<<"id", "ASC">>, <<"name", "ASC">>, <<"id", "DESC">>>>}

InitSort == InitWith({0}, {FALSE}, {1}, {RowsPerPageDEFAULT}, {"table"})

NextSort ==
    \/ \E c \in Columns : handleSortClick(c)
    \/ \E sc \in SortInputs : updateParams([k \in {"sortConditions"} |-> sc])
    \/ reset
    \/ \E m \in RenderType : setRenderMode(m)
    \/ Tick(defaultDebounceDelay)
    \/ \E i \in 1..Len(timers) : debounceFire(i)
    \/ \E i \in 1..Len(loads) : fetchResolve(i, <<>>, 0)

SpecSort == InitSort /\ [][NextSort]_vars

(***************************************************************************)
(* SpecHeader: clicks on the header cells of a table one of whose columns  *)
(* is configured with the marker "no-sorting".                             *)
(***************************************************************************)
NoSortingOptions ==
    [DefaultOptions EXCEPT
        !.headerCellClasses = <<<<"id-col">>, <<"name-col", "no-sorting">>>>]

InitHeader ==
    InitOptions({0}, {FALSE}, {1}, {RowsPerPageDEFAULT}, {"table"},
                {NoSortingOptions})

NextHeader ==
    \/ \E idx \in 1..Len(header) : headerClick(idx)
    \/ reset
    \/ Tick(defaultDebounceDelay)
    \/ \E i \in 1..Len(timers) : debounceFire(i)
    \/ \E i \in 1..Len(loads) : fetchResolve(i, <<>>, 0)

SpecHeader == InitHeader /\ [][NextHeader]_vars

(***************************************************************************)
(* SpecCols: drag and drop of the header cells of a table of three         *)
(* columns, with header classes for all, for some or for none of them.     *)
(***************************************************************************)
ThreeColumns == <<"id", "name", "email">>

ClassesInputs ==
    {<<>>,
     <<<<"id-col">>, <<"name-col">>>>,
     <<<<"id-col">>, <<"name-col">>, <<"email-col">>>>}

ColsOptions ==
    {[DefaultOptions EXCEPT !.columns = ThreeColumns,
                            !.columnTitles = <<"ID", "Name", "Email">>,
                            !.headerCellClasses = hc,
                            !.draggableColumns = TRUE,
                            !.persistState = TRUE] : hc \in ClassesInputs}

\* what saveStateToStorage writes for a state of page p and columns cols
PersistedState(cols, classes, p) ==
    [columns |-> cols, columnWidths |-> NoWidths, sortConditions |-> <<>>,
     filters |-> NoFilters, currentPage |-> p, rowsPerPage |-> RowsPerPageDEFAULT,
     headerCellClasses |-> classes]

\* the item an earlier visit left: none, or a column order saved
StoredColumnsInputs ==
    {NoItem, PersistedState(<<"email", "id", "name">>, <<>>, 1)}

InitCols ==
    InitStored({0}, {FALSE}, {1}, {RowsPerPageDEFAULT}, {"table"},
               ColsOptions, StoredColumnsInputs)

NextCols ==
    \/ \E s, t \in {header[i].col : i \in 1..Len(header)} : handleDrop(s, t)
    \/ reset
    \/ Tick(defaultDebounceDelay)
    \/ \E i \in 1..Len(timers) : debounceFire(i)
    \/ \E i \in 1..Len(loads) : fetchResolve(i, <<>>, 0)

SpecCols == InitCols /\ [][NextCols]_vars

(***************************************************************************)
(* SpecPersist: setState with recipes that return or throw, while the      *)
(* state is saved to localStorage and shown in the page url.               *)
(***************************************************************************)
PersistOptions ==
    [DefaultOptions EXCEPT !.persistState = TRUE, !.usePushState = TRUE]

RecipeInputs ==
    {[currentPage |-> 2, throws |-> FALSE],
     [currentPage |-> 3, throws |-> TRUE]}

InitPersist ==
    InitOptions({0}, {FALSE}, {1}, {RowsPerPageDEFAULT}, {"table"},
                {PersistOptions})

NextPersist ==
    \/ \E recipe \in RecipeInputs : setState(recipe)
    \/ reset
    \/ Tick(defaultDebounceDelay)
    \/ \E fails \in BOOLEAN : saveFire(fails)
    \/ \E i \in 1..Len(timers) : debounceFire(i)
    \/ \E i \in 1..Len(loads) : fetchResolve(i, <<>>, 0)

SpecPersist == InitPersist /\ [][NextPersist]_vars

(***************************************************************************)
(* SpecConstruct: the constructor called with options that lack the url or *)
(* the columns, or give them empty, and with complete options; then the    *)
(* first load of the instance, where there is one.                         *)
(***************************************************************************)
\* SnapOptions.defaultOptions, the options the model reads
defaultOptions ==
    [url |-> "", columns |-> <<>>, columnTitles |-> <<>>,
     selectable |-> FALSE, usePushState |-> FALSE, persistState |-> FALSE,
     draggableColumns |-> FALSE, headerCellClasses |-> <<>>]

UrlError == "URL option is mandatory and must be a string."
InvalidUrlError == "Invalid URL provided"
ColumnsError == "Columns option must be a non-empty array."
ContainerError == "Container not found."

\* new URL(url, document.baseURI) throws for a scheme without a host
parsesAsURL(url) == url # "http://"

validateUrl(options) ==
    IF options.url = "" THEN UrlError
    ELSE IF ~parsesAsURL(options.url) THEN InvalidUrlError
    ELSE ""

\* a validation of the columns that accepts every value
validateColumnsLenient(options) == ""

validateColumns(options) ==
    IF Len(options.columns) = 0 THEN ColumnsError ELSE ""

\* Configuration.validate: the first check that throws ends it (the
\* checks after validateColumns only warn)
validate(options) ==
    IF validateUrl(options) # "" THEN validateUrl(options)
    ELSE validateColumns(options)

\* new Configuration(userOptions): the merge with the defaults
Configuration(userOptions) == userOptions @@ defaultOptions

\* the constructor has thrown: there is no instance, nothing was rendered,
\* nothing is scheduled
ConstructorThrew(options, error) ==
    /\ retryAttempts = 0
    /\ useCache = FALSE
    /\ configOptions = options
    /\ configError = error
    /\ translationManager = NoTranslationManager
    /\ preloads = NoPreloads
    /\ stored = NoItem
    /\ columns = <<>>
    /\ columnTitles = <<>>
    /\ headerCellClasses = <<>>
    /\ columnWidths = NoWidths
    /\ sortConditions = <<>>
    /\ filters = NoFilters
    /\ currentPage = 1
    /\ rowsPerPage = RowsPerPageDEFAULT
    /\ theme = "default"
    /\ language = "en_US"
    /\ selectedRows = {}
    /\ currentRowIndex = -1
    /\ resizing = ""
    /\ listeners = Unobserved
    /\ overlays = NoOverlays
    /\ saveTimer = NoTimer
    /\ location = NoItem
    /\ data = <<>>
    /\ totalRecords = 0
    /\ format = "table"
    /\ translations = FALSE
    /\ isLoading = FALSE
    /\ lastFilterHash = EmptyHash
    /\ timers = <<>>
    /\ loads = <<>>
    /\ cache = EmptyCache
    /\ errorShown = FALSE
    /\ contentHidden = FALSE
    /\ nodes = [m \in RenderType |-> <<>>]
    /\ header = <<>>
    /\ footers = NoFooters
    /\ lastRender = [done |-> FALSE, mode |-> "table", before |-> <<>>,
                     data |-> <<>>]
    /\ burst = [url |-> NoUrl,
                elapsed |-> 0, by |-> "", started |-> 0, startedUrl |-> NoUrl,
                startedAfter |-> 0, issued |-> FALSE, issuedUrl |-> NoUrl,
                retry |-> FALSE]
    /\ lastDone = [outcome |-> "none", kind |-> "none", attempt |-> 0,
                   fetches |-> 0, http |-> 0, retry |-> FALSE]
    /\ hist = NoHistory

\* new SnapRecords(containerId, userOptions), up to its return or throw
constructor(containerEl, userOptions) ==
    LET options == Configuration(userOptions)
    IN  IF ~containerEl
        THEN ConstructorThrew(options, ContainerError)
        ELSE IF validate(options) # ""
        THEN ConstructorThrew(options, validate(options))
        ELSE InitStored({0}, {FALSE}, {1}, {RowsPerPageDEFAULT}, {"table"},
                        {options}, {NoItem})

UserOptionsInputs ==
    {[url |-> "/api/data", columns |-> <<"id", "name">>,
      columnTitles |-> <<"ID", "Name">>],
     [url |-> "/api/data", columns |-> <<"id", "name">>,
      columnTitles |-> <<"ID", "Name">>, persistState |-> TRUE],
     [columns |-> <<"id", "name">>],
     [url |-> "", columns |-> <<"id", "name">>],
     [url |-> "http://", columns |-> <<"id", "name">>],
     [url |-> "/api/data"],
     [url |-> "/api/data", columns |-> <<>>],
     [persistState |-> TRUE]}

InitConstruct ==
    \E containerEl \in BOOLEAN, userOptions \in UserOptionsInputs :
        constructor(containerEl, userOptions)

NextConstruct ==
    /\ configError = ""
    /\ \/ \E n \in LoadPages : gotoPage(n)
       \/ Tick(TickMs)
       \/ saveFire(FALSE)
       \/ \E i \in 1..Len(timers) : debounceFire(i)
       \/ \E i \in 1..Len(loads) : fetchResolve(i, <<1>>, 30)

SpecConstruct == InitConstruct /\ [][NextConstruct]_vars

(***************************************************************************)
(* SpecSelect: selection by keyboard and by click with selectable on and   *)
(* the hook selectionChanged defined, over pages of two rows and of one.   *)
(***************************************************************************)
SelectOptions ==
    [DefaultOptions EXCEPT !.selectable = TRUE, !.selectionChanged = TRUE]

RowsOfPage(page) == IF page = 1 THEN <<1, 2>> ELSE <<3>>

InitSelect ==
    InitOptions({0}, {FALSE}, {1}, {RowsPerPageDEFAULT}, {"table"},
                {SelectOptions})

NextSelect ==
    \/ \E key \in PageKeys \cup SelectionKeys : handleKeyDown(key)
    \/ \E index \in 0..(MaxRows - 1) : rowClick(index)
    \/ clearSelection
    \/ Tick(defaultDebounceDelay)
    \/ \E i \in 1..Len(timers) : debounceFire(i)
    \/ \E i \in 1..Len(loads) :
           fetchResolve(i, RowsOfPage(loads[i].url.page), 11)

SpecSelect == InitSelect /\ [][NextSelect]_vars

(***************************************************************************)
(* SpecKeys: every key of the two key tables, with selectable off and on,  *)
(* over a server that holds two pages.                                     *)
(***************************************************************************)
InitKeys ==
    InitOptions({0}, {FALSE}, {1}, {RowsPerPageDEFAULT}, {"table"},
                {DefaultOptions, SelectOptions})

NextKeys ==
    \/ \E key \in PageKeys \cup SelectionKeys : handleKeyDown(key)
    \/ Tick(defaultDebounceDelay)
    \/ \E i \in 1..Len(timers) : debounceFire(i)
    \/ \E i \in 1..Len(loads) :
           fetchResolve(i, RowsOfPage(loads[i].url.page), 11)

SpecKeys == InitKeys /\ [][NextKeys]_vars

(***************************************************************************)
(* SpecReset: reset() after a search, a sort click, a page change, a       *)
(* column drop and a column resize.                                        *)
(***************************************************************************)
WidthInputs == {120}

SortedSecondPage ==
    [k \in {"currentPage", "sortConditions"} |->
        IF k = "currentPage" THEN 2 ELSE <<<<"name", "DESC">>>>]

InitReset ==
    InitOptions({0}, {FALSE}, {1}, {RowsPerPageDEFAULT}, {"table"},
                {[DefaultOptions EXCEPT !.draggableColumns = TRUE]})

NextReset ==
    \/ reset
    \/ search(NameFilter, FALSE)
    \/ updateParams(SortedSecondPage)
    \/ handleDrop("name", "id")
    \/ startResize("id")
    \/ \E w \in WidthInputs : handleResize(w)
    \/ stopResize
    \/ Tick(defaultDebounceDelay)
    \/ \E i \in 1..Len(timers) : debounceFire(i)
    \/ \E i \in 1..Len(loads) : fetchResolve(i, <<1>>, 30)

SpecReset == InitReset /\ [][NextReset]_vars

(***************************************************************************)
(* SpecRound: the state is changed, saved to localStorage and loaded back  *)
(* by a new instance, configured with the same columns or with a column    *)
(* replaced.                                                               *)
(***************************************************************************)
RoundOptions(cols, titles) ==
    [DefaultOptions EXCEPT !.columns = cols, !.columnTitles = titles,
                           !.draggableColumns = TRUE, !.persistState = TRUE]

RoundOptionsInputs ==
    {RoundOptions(<<"id", "name">>, <<"ID", "Name">>),
     RoundOptions(<<"id", "email">>, <<"ID", "Email">>)}

\* updateParams({currentPage: 2, filters: {name: 'a'}, sortConditions:
\* [['name', 'DESC']]}) and updateParams({currentPage: 0, rowsPerPage: 15})
RoundParams ==
    {[k \in {"currentPage", "filters", "sortConditions"} |->
        CASE k = "currentPage" -> 2
          [] k = "filters" -> NameFilter
          [] OTHER -> <<<<"name", "DESC">>>>],
     [k \in {"currentPage", "rowsPerPage"} |->
        IF k = "currentPage" THEN 0 ELSE 15]}

InitRound ==
    InitOptions({0}, {FALSE}, {1}, {RowsPerPageDEFAULT}, {"table"},
                {RoundOptions(<<"id", "name">>, <<"ID", "Name">>)})

NextRound ==
    \/ \E params \in RoundParams : updateParams(params)
    \/ handleDrop("name", "id")
    \/ startResize("name")
    \/ \E w \in WidthInputs : handleResize(w)
    \/ stopResize
    \/ Tick(DEBOUNCE_TIMEOUT_MS)
    \/ saveFire(FALSE)
    \/ \E options \in RoundOptionsInputs : reload(options)

SpecRound == InitRound /\ [][NextRound]_vars

(***************************************************************************)
(* SpecRace: a page change while the first load is in flight; the server   *)
(* answers the request for page p with the record p, in any order.         *)
(***************************************************************************)
\* the body of the response to the request for url
ResponseTo(url) == <<url.page>>

InitRace == InitWith({0}, {FALSE}, {1}, {RowsPerPageDEFAULT}, {"table"})

NextRace ==
    \/ \E n \in {1, 2} : gotoPage(n)
    \/ Tick(defaultDebounceDelay)
    \/ \E i \in 1..Len(timers) : loadDataCalled(i, MaxRacing)
    \/ \E i \in 1..Len(loads) : fetchResolve(i, ResponseTo(loads[i].url), 30)

SpecRace == InitRace /\ [][NextRace]_vars

(***************************************************************************)
(* SpecDestroy: destroy() called before, while and after loads are in      *)
(* flight, the listeners of the container observed.                        *)
(***************************************************************************)
InitDestroy ==
    InitObserved({0}, {FALSE}, {1}, {RowsPerPageDEFAULT}, {"table"},
                 {DefaultOptions}, {NoItem}, TRUE)

NextDestroy ==
    \/ destroy
    \/ \E n \in {1, 2} : gotoPage(n)
    \/ Tick(defaultDebounceDelay)
    \/ \E i \in 1..Len(timers) : debounceFire(i)
    \/ \E i \in 1..Len(loads) : fetchResolve(i, ResponseTo(loads[i].url), 30)
    \/ \E i \in 1..Len(loads) : fetchFail(i, "http")

SpecDestroy == InitDestroy /\ [][NextDestroy]_vars

(***************************************************************************)
(* SpecListen: loads and renders, each followed by setupAllHandlers, and   *)
(* pointer-downs on a resize handle, the listeners of the container        *)
(* observed.                                                               *)
(***************************************************************************)
InitListen ==
    InitObserved({0}, {FALSE}, {1}, {RowsPerPageDEFAULT}, {"table"},
                 {[DefaultOptions EXCEPT !.draggableColumns = TRUE]},
                 {NoItem}, TRUE)

NextListen ==
    \/ \E n \in {1, 2} : gotoPage(n)
    \/ Tick(defaultDebounceDelay)
    \/ \E i \in 1..Len(timers) : debounceFire(i)
    \/ \E i \in 1..Len(loads) : fetchResolve(i, ResponseTo(loads[i].url), 30)
    \/ startResize("id")
    \/ stopResize

SpecListen == InitListen /\ [][NextListen]_vars

(***************************************************************************)
(* SpecSnapshot: calls that assign to the draft the values the state       *)
(* holds already, next to calls that change it, the state being saved to   *)
(* localStorage and shown in the page url.                                 *)
(***************************************************************************)
InitSnapshot ==
    InitOptions({0}, {FALSE}, {1}, {RowsPerPageDEFAULT}, {"table"},
                {PersistOptions})

NextSnapshot ==
    \/ \E merge \in BOOLEAN : search(NameFilter, merge)
    \/ reset
    \/ \E n \in {1, 2} : gotoPage(n)
    \/ Tick(DEBOUNCE_TIMEOUT_MS)
    \/ saveFire(FALSE)

SpecSnapshot == InitSnapshot /\ [][NextSnapshot]_vars

(***************************************************************************)
(* SpecFooter: an instance that starts as a table or as a list, switches   *)
(* between the three modes and loads pages, the footers observed.          *)
(***************************************************************************)
InitFooter ==
    InitObserved({0}, {FALSE}, {1}, {RowsPerPageDEFAULT}, {"table", "list"},
                 {DefaultOptions}, {NoItem}, TRUE)

NextFooter ==
    \/ \E mode \in RenderType : setRenderMode(mode)
    \/ \E n \in {1, 2} : gotoPage(n)
    \/ Tick(defaultDebounceDelay)
    \/ \E i \in 1..Len(timers) : debounceFire(i)
    \/ \E i \in 1..Len(loads) : fetchResolve(i, ResponseTo(loads[i].url), 30)

SpecFooter == InitFooter /\ [][NextFooter]_vars

(***************************************************************************)
(* SpecPagination: pages near the start, in the middle, near the end and   *)
(* beyond the end of totals of no, a few and many pages, the footer        *)
(* observed.                                                               *)
(***************************************************************************)
PaginationPages == {1, 3, 4, 5, 6, 11}
PaginationTotals == {0, 45, 110}

InitPagination ==
    InitObserved({0}, {FALSE}, {1}, {RowsPerPageDEFAULT, 20}, {"table"},
                 {DefaultOptions}, {NoItem}, TRUE)

NextPagination ==
    \/ \E n \in PaginationPages : gotoPage(n)
    \/ Tick(defaultDebounceDelay)
    \/ \E i \in 1..Len(timers) : debounceFire(i)
    \/ \E i \in 1..Len(loads), total \in PaginationTotals :
           fetchResolve(i, <<1>>, total)

SpecPagination == InitPagination /\ [][NextPagination]_vars

(***************************************************************************)
(* SpecTranslate: calls of TranslationManager.get for three languages, the *)
(* fetches answering or failing, the retry delays, destroy clearing the    *)
(* cache.  A fetch settles and a timeout that is set runs: weak fairness   *)
(* of the two settlements and of the delay.                                *)
(***************************************************************************)
InitTranslate ==
    InitObserved({0}, {FALSE}, {1}, {RowsPerPageDEFAULT}, {"table"},
                 {DefaultOptions}, {NoItem}, TRUE)

NextTranslate ==
    \/ \E lang \in Langs : get(lang)
    \/ fetchTranslationResolve
    \/ fetchTranslationFail
    \/ retryDelayOver
    \/ destroy

SpecTranslate ==
    /\ InitTranslate
    /\ [][NextTranslate]_vars
    /\ WF_vars(fetchTranslationResolve \/ fetchTranslationFail)
    /\ WF_vars(retryDelayOver)

(***************************************************************************)
(* SpecPreload: preloading switched on, with and without the cache: the    *)
(* change to page 2, loads that answer with 15 records (two pages), the preloads    *)
(* they start under every connection, the preloads reading the cache,      *)
(* answering or failing, and the entries of the cache growing older.       *)
(***************************************************************************)
PreloadOptions == [DefaultOptions EXCEPT !.preloadNextPage = TRUE]

PreloadTotals == {15}

InitPreload ==
    InitObserved({0}, BOOLEAN, {1}, {RowsPerPageDEFAULT}, {"table"},
                 {PreloadOptions}, {NoItem}, FALSE)

NextPreload ==
    \/ gotoPage(2)
    \/ Tick(defaultDebounceDelay)
    \/ \E i \in 1..Len(timers) : debounceFire(i)
    \/ \E i \in 1..Len(loads) : cacheReadDone(i, FALSE)
    \/ \E i \in 1..Len(loads), total \in PreloadTotals :
           fetchResolve(i, <<1>>, total)
    \/ \E i \in 1..Len(loads) : cachePutDone(i)
    \/ \E j \in 1..Len(preloads.calls) : preloadReadDone(j, FALSE)
    \/ \E j \in 1..Len(preloads.calls) : preloadResolve(j, <<2>>, 15)
    \/ \E j \in 1..Len(preloads.calls) : preloadFail(j)
    \/ cacheAge

SpecPreload == InitPreload /\ [][NextPreload]_vars

(***************************************************************************)
(* SpecRestart: the cache in use over page loads of an instance and of the *)
(* instances constructed after it on the same origin, with the same        *)
(* options: the database outlives the instance.                            *)
(***************************************************************************)
InitRestart == InitWith({0}, {TRUE}, {1}, {RowsPerPageDEFAULT}, {"table"})

NextRestart ==
    \/ \E n \in LoadPages : gotoPage(n)
    \/ Tick(defaultDebounceDelay)
    \/ \E i \in 1..Len(timers) : debounceFire(i)
    \/ \E i \in 1..Len(loads) : cacheReadDone(i, FALSE)
    \/ \E i \in 1..Len(loads) : fetchResolve(i, <<1>>, 1)
    \/ \E i \in 1..Len(loads) : cachePutDone(i)
    \/ reload(DefaultOptions)

SpecRestart == InitRestart /\ [][NextRestart]_vars

(***************************************************************************)
(* SpecTeardown: an instance that is used until destroy() is called and    *)
(* not afterwards: the page changes come before destroy, the timeouts and  *)
(* the requests that are pending run their course.                         *)
(***************************************************************************)
InitTeardown ==
    InitObserved({0}, {FALSE}, {1}, {RowsPerPageDEFAULT}, {"table"},
                 {DefaultOptions}, {NoItem}, TRUE)

NextTeardown ==
    \/ destroy
    \/ \E n \in {1, 2} : listeners.content /\ gotoPage(n)
    \/ Tick(defaultDebounceDelay)
    \/ \E i \in 1..Len(timers) : debounceFire(i)
    \/ \E i \in 1..Len(loads) : fetchResolve(i, ResponseTo(loads[i].url), 30)
    \/ \E i \in 1..Len(loads) : fetchFail(i, "http")

SpecTeardown == InitTeardown /\ [][NextTeardown]_vars

(***************************************************************************)
(* SpecHighlight: row clicks and clearSelection between loads whose        *)
(* answers hold the same records in another order or other records, the    *)
(* classes of the row elements observed.                                   *)
(***************************************************************************)
HighlightRows == {<<1, 2>>, <<2, 1>>, <<3>>}

InitHighlight ==
    InitObserved({0}, {FALSE}, {1}, {RowsPerPageDEFAULT}, {"table"},
                 {SelectOptions}, {NoItem}, TRUE)

NextHighlight ==
    \/ \E index \in 0..(MaxRows - 1) : rowClick(index)
    \/ clearSelection
    \/ \E n \in LoadPages : gotoPage(n)
    \/ Tick(defaultDebounceDelay)
    \/ \E i \in 1..Len(timers) : debounceFire(i)
    \/ \E i \in 1..Len(loads), rows \in HighlightRows :
           fetchResolve(i, rows, 11)

SpecHighlight == InitHighlight /\ [][NextHighlight]_vars

(***************************************************************************)
(* SpecLoading: the loading flag and the overlay over loads that overlap,  *)
(* fail and are retried, with switches of the render mode in between.  The *)
(* user asks for a further page at most twice (page 2, page 3); a request   *)
(* that was issued is answered or fails (weak fairness of the settlement). *)
(***************************************************************************)
LoadingPages == {2, 3}

InitLoading ==
    InitAspects({0, MaxRetryAttempts}, {FALSE}, {1}, {RowsPerPageDEFAULT},
                {"table"}, {DefaultOptions}, {NoItem}, {"overlays"})

fetchSettles ==
    \E i \in 1..Len(loads) :
        \/ fetchResolve(i, <<1>>, 1)
        \/ \E kind \in {"transient", "http"} : fetchFail(i, kind)

NextLoading ==
    \/ \E n \in LoadingPages : n > currentPage /\ gotoPage(n)
    \/ \E mode \in {"table", "list"} : setRenderMode(mode)
    \/ Tick(defaultDebounceDelay)
    \/ \E i \in 1..Len(timers) : loadDataCalled(i, MaxRacing)
    \/ fetchSettles

SpecLoading ==
    /\ InitLoading
    /\ [][NextLoading]_vars
    /\ WF_vars(fetchSettles)

(***************************************************************************)
(* SpecUrl: the requests and the cache keys of loads after searches, with  *)
(* plain values and with values that hold markup, a sort and a page        *)
(* change, the cache in use.                                               *)
(***************************************************************************)
SearchInputs ==
    {FilterOf("name", "a"), FilterOf("name", "a<script>x</script>")}

InitUrl == InitWith({0}, {TRUE}, {1}, {RowsPerPageDEFAULT}, {"table"})

NextUrl ==
    \/ \E f \in SearchInputs : search(f, FALSE)
    \/ updateParams(SortedSecondPage)
    \/ Tick(defaultDebounceDelay)
    \/ \E i \in 1..Len(timers) : debounceFire(i)
    \/ \E i \in 1..Len(loads) : cacheReadDone(i, FALSE)
    \/ \E i \in 1..Len(loads) : fetchResolve(i, <<1>>, 30)
    \/ \E i \in 1..Len(loads) : cachePutDone(i)

SpecUrl == InitUrl /\ [][NextUrl]_vars

(***************************************************************************)
(* SpecSetters: the four setters called with new values and with the       *)
(* values in force, the state being saved to localStorage.                 *)
(***************************************************************************)
SetterInputs ==
    {<<"setTheme", "default">>, <<"setTheme", "dark">>,
     <<"setRenderMode", "table">>, <<"setRenderMode", "list">>,
     <<"setLanguage", "en_US">>, <<"setLanguage", "pt_PT">>}

RowsPerPageInputs == {RowsPerPageDEFAULT, 20}

InitSetters ==
    InitOptions({0}, {FALSE}, {1}, {RowsPerPageDEFAULT}, {"table"},
                {[DefaultOptions EXCEPT !.persistState = TRUE]})

NextSetters ==
    \/ \E c \in SetterInputs : setterCall(c[1], c[2])
    \/ \E n \in RowsPerPageInputs : setRowsPerPageCall(n)
    \/ Tick(defaultDebounceDelay)
    \/ saveFire(FALSE)
    \/ \E i \in 1..Len(timers) : debounceFire(i)
    \/ \E i \in 1..Len(loads) : fetchResolve(i, <<1>>, 30)

SpecSetters == InitSetters /\ [][NextSetters]_vars

(***************************************************************************)
(* SpecCache: the load pipeline with the cache in use.                     *)
(***************************************************************************)
InitCache == InitWith({0}, {TRUE}, {1}, {RowsPerPageDEFAULT}, {"table"})

NextCache ==
    \/ \E n \in LoadPages : gotoPage(n)
    \/ Tick(defaultDebounceDelay)
    \/ \E i \in 1..Len(timers) : debounceFire(i)
    \/ \E i \in 1..Len(loads), timedOut \in BOOLEAN :
           cacheReadDone(i, timedOut)
    \/ cacheAge
    \/ \E u \in DOMAIN cache : cacheTamper(u)
    \/ \E i \in 1..Len(loads) : fetchResolve(i, <<1>>, 1)
    \/ \E i \in 1..Len(loads) : cachePutDone(i)

SpecCache == InitCache /\ [][NextCache]_vars

(***************************************************************************)
(* SpecInval: the cache in use while the filters and the sort              *)
(* configuration change between loads.                                     *)
(***************************************************************************)
NextInval ==
    \/ search(NameFilter, FALSE)
    \/ updateParams([k \in {"sortConditions"} |-> <<<<"name", "DESC">>>>])
    \/ reset
    \/ Tick(defaultDebounceDelay)
    \/ \E i \in 1..Len(timers) : debounceFire(i)
    \/ \E i \in 1..Len(loads) : cacheReadDone(i, FALSE)
    \/ \E i \in 1..Len(loads) : fetchResolve(i, <<1>>, 1)
    \/ \E i \in 1..Len(loads) : cachePutDone(i)

SpecInval == InitCache /\ [][NextInval]_vars

(***************************************************************************)
(* SpecRender: the pages the server returns (sequences of records, told    *)
(* apart by their ids) rendered one after the other, in each render mode.  *)
(***************************************************************************)
RECURSIVE SeqsUpTo(_, _)
SeqsUpTo(S, n) ==
    IF n = 0 THEN {<<>>}
    ELSE LET shorter == SeqsUpTo(S, n - 1)
         IN  shorter \cup {Append(q, x) : q \in shorter, x \in S}

\* the pages of the server: every sequence of at most MaxRows records with
\* distinct ids, and one page that carries the same id twice
RenderRows ==
    {q \in SeqsUpTo(Ids, MaxRows) : Distinct(q)} \cup {<<1, 1>>}

InitRender == InitWith({0}, {FALSE}, {1}, {RowsPerPageDEFAULT}, {"table"})

NextRender ==
    \/ refresh
    \/ Tick(defaultDebounceDelay)
    \/ \E i \in 1..Len(timers) : debounceFire(i)
    \/ \E i \in 1..Len(loads), rows \in RenderRows :
           fetchResolve(i, rows, Len(rows))

SpecRender == InitRender /\ [][NextRender]_vars

(***************************************************************************)
(* Properties of the load pipeline (Spec).                                 *)
(***************************************************************************)
\* C1: in a burst of load-requesting calls, each made less than the
\* debounce delay after the previous one, the debounced loader starts at
\* most one loadData run, only once the delay has passed since the last
\* call, with the request of the state after the last call; and no request
\* built while the burst is going on is for another state than the one
\* after the last call (no request for an intermediate state).
C1_BurstIssuesOneRequest ==
    /\ burst.started <= 1
    /\ timers # <<>> => burst.started = 0
    /\ burst.started = 1 =>
           /\ burst.startedUrl = burst.url
           /\ burst.startedAfter >= defaultDebounceDelay
    /\ burst.issued => burst.issuedUrl = burst.url

\* C2: a load whose requests all fail transiently ends after exactly
\* retryAttempts + 1 requests with the error panel shown, and no chain of
\* attempts ever goes beyond retryAttempts + 1 requests.
C2_RetriesExhausted ==
    /\ \A i \in 1..Len(loads) :
           /\ loads[i].attempt <= retryAttempts + 1
           /\ loads[i].fetches <= retryAttempts + 1
    /\ (lastDone.outcome = "error" /\ lastDone.kind = "transient") =>
           /\ lastDone.fetches = retryAttempts + 1
           /\ errorShown
           /\ contentHidden

\* a load with the largest retryAttempts has just ended in the error panel
\* after transient failures only
C2_Witness ==
    /\ retryAttempts = MaxRetryAttempts
    /\ lastDone.outcome = "error"
    /\ lastDone.kind = "transient"
    /\ lastDone.fetches = MaxRetryAttempts + 1
    /\ loads = <<>>
    /\ errorShown

\* C3: a non-OK response is never retried: no attempt in flight belongs to
\* a chain that received one, the load it ends shows the error panel, and
\* when it answers the first request that request is the only one of the
\* load, whatever retryAttempts is.
C3_HttpErrorNotRetried ==
    /\ \A i \in 1..Len(loads) : loads[i].http = 0
    /\ lastDone.kind = "http" =>
           /\ lastDone.outcome = "error"
           /\ lastDone.http = 1
           /\ lastDone.fetches = lastDone.attempt
           /\ lastDone.attempt = 1 => lastDone.fetches = 1
           /\ errorShown
           /\ contentHidden

\* with retries configured, a load ended on a non-OK answer to its first
\* request
C3_Witness ==
    /\ retryAttempts = MaxRetryAttempts
    /\ lastDone.outcome = "error"
    /\ lastDone.kind = "http"
    /\ lastDone.fetches = 1
    /\ errorShown

\* C4: whenever a request started by loadData is in flight, isLoading is
\* true.
C4_LoadingWhileFetching ==
    (\E i \in 1..Len(loads) : loads[i].pc = "fetch") => isLoading

\* C5: once the retry button was used and the load it requested succeeded,
\* the content is visible again and the error panel is not displayed.
C5_ContentBackAfterRetry ==
    (lastDone.outcome \in {"ok", "cached"} /\ lastDone.retry) =>
        (~contentHidden /\ ~errorShown)

(***************************************************************************)
(* Properties of the navigation state (SpecNav).                           *)
(***************************************************************************)

\* C6: currentPage is at least 1 in every state, and a gotoPage call leaves
\* currentPage within 1 .. totalPages.
C6_PageWithinRange ==
    [][/\ currentPage' >= 1
       /\ (\E n \in PageInputs : gotoPage(n)) =>
              currentPage' <= totalPages(totalRecords', rowsPerPage')]_vars

\* C7: rowsPerPage is one of the allowed page sizes in every state.
C7_RowsPerPageAllowed == rowsPerPage \in AllowedRowsPerPage

(***************************************************************************)
(* Properties of the sort configuration (SpecSort).                        *)
(***************************************************************************)
\* the entries of s for other columns than col, in their order
Others(s, col) == SelectSeq(s, LAMBDA e : e[1] # col)
\* the directions s holds for col
DirsOf(s, col) == {s[i][2] : i \in {j \in 1..Len(s) : s[j][1] = col}}
\* the positions of the entries of s for col
PosOf(s, col) == {i \in 1..Len(s) : s[i][1] = col}

\* what a click on col does to a configuration s that holds at most one
\* entry for col, giving t
Toggled(s, t, col) ==
    /\ Others(t, col) = Others(s, col)
    /\ CASE DirsOf(s, col) = {} ->
                /\ Len(t) = Len(s) + 1
                /\ t[Len(t)] = <<col, "ASC">>
         [] DirsOf(s, col) = {"ASC"} ->
                /\ DirsOf(t, col) = {"DESC"}
                /\ PosOf(t, col) = PosOf(s, col)
         [] OTHER -> PosOf(t, col) = {}

\* C10: a sort click on column c changes only c's entry (absent: ASC
\* appended at the end; ASC: DESC at the same position; DESC: removed),
\* leaves the other entries and their order alone, and three clicks on an
\* absent column give the configuration back.
C10_SortClickTogglesColumn ==
    [][\A c \in Columns :
        (Cardinality(PosOf(sortConditions, c)) <= 1) =>
            /\ handleSortClick(c) =>
                   Toggled(sortConditions, sortConditions', c)
            /\ PosOf(sortConditions, c) = {} =>
                   sortToggle(sortToggle(sortToggle(sortConditions, c), c), c)
                       = sortConditions]_vars

\* two columns were clicked, the second one twice: name is ascending and
\* first, id descending and second
C10_Witness ==
    /\ sortConditions = <<<<"name", "ASC">>, <<"id", "DESC">>>>
    /\ timers # <<>>
    /\ burst.url = CurrentUrl

(***************************************************************************)
(* Properties of the rendered rows (SpecRender).                           *)
(***************************************************************************)
\* the row nodes of the container that was rendered last
Rendered == nodes[lastRender.mode]

\* C8: after a render of data whose ids are distinct, the row nodes of the
\* active container are, in order, one node per record, keyed by the
\* record's id and carrying its position as data-index; no id has two
\* nodes and no node stands at two places.
C8_RowsMatchData ==
    (lastRender.done /\ Distinct(KeysOfData(lastRender.data))) =>
        /\ lastRender.mode = format
        /\ Len(Rendered) = Len(lastRender.data)
        /\ \A j \in 1..Len(Rendered) :
               /\ Rendered[j].key = ToStr(lastRender.data[j])
               /\ Rendered[j].index = j - 1
        /\ Distinct(Keys(Rendered))
        /\ Distinct([j \in 1..Len(Rendered) |-> Rendered[j].ref])

\* two records were rendered over two rows that were not these two records
\* in this order
C8_Witness ==
    /\ lastRender.done
    /\ Len(lastRender.data) = 2
    /\ Distinct(KeysOfData(lastRender.data))
    /\ Len(lastRender.before) = 2
    /\ Keys(lastRender.before) # KeysOfData(lastRender.data)
    /\ data = lastRender.data

\* C9: reconciling rows of distinct ids A to data of distinct ids B keeps
\* the node of every id in both, creates a node only for an id of B absent
\* from A, drops the nodes of the ids absent from B, and reconciling again
\* with B changes nothing.
C9_ReconcileReusesNodes ==
    (/\ lastRender.done
     /\ Distinct(Keys(lastRender.before))
     /\ Distinct(KeysOfData(lastRender.data))) =>
        LET old == lastRender.before
            new == Rendered
            inOld(k) == \E j \in 1..Len(old) : old[j].key = k
            inNew(k) == \E j \in 1..Len(new) : new[j].key = k
        IN  /\ \A j \in 1..Len(new) :
                   IF inOld(new[j].key)
                   THEN \E k \in 1..Len(old) :
                            /\ old[k].key = new[j].key
                            /\ old[k].ref = new[j].ref
                   ELSE new[j].ref \notin Refs(old)
            /\ \A k \in 1..Len(old) :
                   ~inNew(old[k].key) => old[k].ref \notin Refs(new)
            /\ Keys(old) = KeysOfData(lastRender.data) => new = old
            /\ reconcileItems(new, lastRender.data) = new

\* the last render kept a node, created one and dropped one
C9_Witness ==
    /\ lastRender.done
    /\ Distinct(Keys(lastRender.before))
    /\ Distinct(KeysOfData(lastRender.data))
    /\ \E j \in 1..Len(Rendered) :
           \E k \in 1..Len(lastRender.before) :
               lastRender.before[k].key = Rendered[j].key
    /\ \E j \in 1..Len(Rendered) :
           \A k \in 1..Len(lastRender.before) :
               lastRender.before[k].key # Rendered[j].key
    /\ \E k \in 1..Len(lastRender.before) :
           \A j \in 1..Len(Rendered) :
               lastRender.before[k].key # Rendered[j].key

(***************************************************************************)
(* The cache                                                               *)
(***************************************************************************)
\* C11: with the cache in use, a load whose filter set differs from the
\* filter set of the load before it leaves the cache empty before it reads
\* the cache or fetches, and a load whose filter set is that of the load
\* before it (whatever its sort configuration) removes no entry.
C11_FilterChangeClearsCache ==
    hist.start.again =>
        /\ hist.start.filtersChanged => hist.start.cleared
        /\ ~hist.start.filtersChanged => hist.start.kept

\* a load found entries stored under the filter set of the load before it,
\* and has cleared them
C11_Witness ==
    /\ hist.start.again
    /\ hist.start.filtersChanged
    /\ hist.start.hadEntries
    /\ hist.start.cleared
    /\ \E i \in 1..Len(loads) : loads[i].pc = "cache"

\* the invocations of loadData that wait for the response to their request
Fetching(ls) == {i \in 1..Len(ls) : ls[i].pc = "fetch"}

\* C12: with the cache in use, a cache read is a hit exactly when it came
\* back within its timeout with an entry stored under the url of the load,
\* of valid shape and younger than cacheExpiry; a hit puts the data and the
\* totalRecords of the entry into the state and ends the load with no
\* request issued; a miss makes the load issue its request.
C12_FreshEntryServedWithoutFetch ==
    [][hist'.read.n # hist.read.n =>
        LET r == hist'.read
        IN  /\ r.hit <=> /\ ~r.timedOut
                         /\ r.present
                         /\ r.valid
                         /\ r.age < cacheExpiry
            /\ r.hit =>
                  /\ data' = cache[r.url].data
                  /\ totalRecords' = cache[r.url].totalRecords
                  /\ Len(loads') = Len(loads) - 1
                  /\ Cardinality(Fetching(loads')) =
                         Cardinality(Fetching(loads))
                  /\ lastDone'.outcome = "cached"
                  /\ lastDone'.fetches = 0
            /\ ~r.hit =>
                  /\ Len(loads') = Len(loads)
                  /\ \E i \in Fetching(loads') \ Fetching(loads) :
                         /\ loads'[i].url = r.url
                         /\ loads'[i].fetches = loads[i].fetches + 1
                  /\ UNCHANGED <<data, totalRecords>>]_vars

\* a load has been served from the cache: the state holds the entry stored
\* under its url, and no request was issued for it
C12_Witness ==
    /\ hist.read.hit
    /\ lastDone.outcome = "cached"
    /\ lastDone.fetches = 0
    /\ hist.read.url \in DOMAIN cache
    /\ data = cache[hist.read.url].data
    /\ data # <<>>

(***************************************************************************)
(* Columns                                                                 *)
(***************************************************************************)
\* the header class the options give to column c
ConfiguredClass(c) ==
    LET k == CHOOSE k \in 1..Len(configOptions.columns) :
                 configOptions.columns[k] = c
    IN  At(configOptions.headerCellClasses, k)

\* C13: the header cell of a column whose configured header class holds
\* the marker "no-sorting" shows its title without the sort link, and a
\* click on it neither changes sortConditions nor requests a load.
C13_NoSortingHeaderNotClickable ==
    [][\A idx \in 1..Len(header) :
          (/\ headerClick(idx)
           /\ includes(ConfiguredClass(header[idx].col), "no-sorting")) =>
              /\ ~header[idx].link
              /\ UNCHANGED <<sortConditions, timers>>]_vars

\* the columns with those at si and ti exchanged
Swapped(cols, si, ti) ==
    [k \in 1..Len(cols) |->
        IF k = si THEN cols[ti] ELSE IF k = ti THEN cols[si] ELSE cols[k]]

\* C14 as stated: a drop of column s on another column t exchanges the two
\* in columns and leaves every other column at its index; a drop of a
\* column on itself changes nothing.
C14_DropSwapsColumns ==
    hist.drop.done =>
        LET d == hist.drop
        IN  IF d.source = d.target THEN d.after = d.before
            ELSE d.after = Swapped(d.before, indexOf(d.before, d.source),
                                   indexOf(d.before, d.target))

\* C14 amended: a drop of column s on another column t moves s to the
\* index t had, the other columns keeping their order (so the columns
\* between the two shift by one index towards the place s left, and those
\* outside keep their index); a drop of a column on itself changes nothing.
C14_DropMovesColumn ==
    hist.drop.done =>
        LET d == hist.drop
            si == indexOf(d.before, d.source)
            ti == indexOf(d.before, d.target)
        IN  IF d.source = d.target THEN d.after = d.before
            ELSE /\ Len(d.after) = Len(d.before)
                 /\ d.after[ti] = d.source
                 /\ RemoveAt(d.after, ti) = RemoveAt(d.before, si)
                 /\ \A k \in 1..Len(d.before) :
                        (k < Min(si, ti) \/ k > Max(si, ti)) =>
                            d.after[k] = d.before[k]

\* the first column has been dropped on the third: the second column is
\* now the first
C14_Witness ==
    /\ hist.drop.done
    /\ hist.drop.before = ThreeColumns
    /\ hist.drop.source = "id"
    /\ hist.drop.target = "email"
    /\ columns = <<"name", "email", "id">>
    /\ columns = hist.drop.after

\* the title the options give to column c
ConfiguredTitle(c) ==
    LET k == CHOOSE k \in 1..Len(configOptions.columns) :
                 configOptions.columns[k] = c
    IN  TitleAt(configOptions.columnTitles, k)

\* C15: at every index, the title and the header class in the state are
\* those the options give to the column that stands at that index.
C15_ColumnsTitlesClassesAligned ==
    \A k \in 1..Len(columns) :
        /\ TitleAt(columnTitles, k) = ConfiguredTitle(columns[k])
        /\ At(headerCellClasses, k) = ConfiguredClass(columns[k])

C17_SetterWithValueInForceIsNoOp ==
    [][/\ \A c \in SetterInputs :
              (setterCall(c[1], c[2]) /\ c[2] = InForce(c[1])) =>
                  UNCHANGED <<stateVars, selVars, persistVars, loadVars,
                              viewVars, burst, lastDone>>
       /\ \A n \in RowsPerPageInputs :
              (setRowsPerPageCall(n) /\ n = rowsPerPage) =>
                  UNCHANGED <<stateVars, selVars, persistVars, loadVars,
                              viewVars, burst, lastDone>>]_vars

\* setRowsPerPage has been called with the value in force, with no load
\* requested and the save of the state pending
C17_Witness ==
    /\ hist.noop.n = 1
    /\ hist.noop.name = "setRowsPerPage"
    /\ rowsPerPage = 20
    /\ timers = <<>>
    /\ saveTimer # NoTimer
    /\ theme = "dark"

\* C18: when the options lack the url or the columns, or give an empty
\* url or no column, the constructor throws a configuration error, and no
\* load was scheduled, no request issued and nothing saved or rendered at
\* that point or ever after.
C18_BadOptionsThrowBeforeAnyLoad ==
    (configOptions.url = "" \/ Len(configOptions.columns) = 0) =>
        /\ configError \in {UrlError, ColumnsError, ContainerError}
        /\ timers = <<>>
        /\ loads = <<>>
        /\ saveTimer = NoTimer
        /\ burst.started = 0
        /\ ~burst.issued
        /\ lastDone.fetches = 0
        /\ ~lastRender.done

\* the constructor was given a url and an empty list of columns, in a
\* container that exists, and threw the error of the columns
C18_Witness ==
    /\ configError = ColumnsError
    /\ configOptions.url = "/api/data"
    /\ configOptions.columns = <<>>
    /\ timers = <<>>

\* a step of #toggleRowSelection
ToggleStep == hist'.sel.n # hist.sel.n

\* C19: with selectable on, each toggle (Enter, Space, click on a row)
\* flips the membership of the row's index in the selected set and hands
\* the hook selectionChanged the full records of the rows selected after
\* the toggle, one for each selected index.
C19_ToggleFiresHookWithRecords ==
    [][ToggleStep =>
          /\ selectedRows' = toggle(hist'.sel.before, hist'.sel.index)
          /\ hist'.sel.before = selectedRows
          /\ hist'.sel.hooked
          /\ {r.index : r \in hist'.sel.received} = selectedRows'
          /\ \A r \in hist'.sel.received : r.record # <<>>]_vars

\* nothing but the note of the call changes
NothingHappens ==
    UNCHANGED <<stateVars, selVars, persistVars, loadVars, viewVars, burst,
                lastDone>>

\* C20: PageUp and PageDown act whether or not selectable is on: PageUp
\* moves to the page before when currentPage > 1 and does nothing at page
\* 1, PageDown moves to the page after when currentPage is below
\* ceil(totalRecords / rowsPerPage) and does nothing otherwise; with
\* selectable off the arrows, Home, End, Enter and Space change nothing.
C20_PageKeysAlwaysSelectionKeysGated ==
    [][\A key \in PageKeys \cup SelectionKeys :
          handleKeyDown(key) =>
             /\ key = "PageUp" =>
                    IF currentPage > 1
                    THEN currentPage' = currentPage - 1
                    ELSE NothingHappens
             /\ key = "PageDown" =>
                    IF currentPage < CeilDiv(totalRecords, rowsPerPage)
                    THEN currentPage' = currentPage + 1
                    ELSE NothingHappens
             /\ (key \in SelectionKeys /\ ~configOptions.selectable) =>
                    NothingHappens]_vars

\* with selectable off, PageDown has led to page 2 of 2, whose row is
\* shown, and End was pressed there without an effect
C20_Witness ==
    /\ ~configOptions.selectable
    /\ currentPage = 2
    /\ totalRecords = 11
    /\ data = RowsOfPage(2)
    /\ hist.noop.name = "End"
    /\ currentRowIndex = 0 - 1

\* C21: reset() leaves currentPage 1, no filter, no sort condition, no
\* column width, and the columns, titles and header classes as configured;
\* the load that reset requested, when it starts, issues a request without
\* filtering and without sorting.
C21_ResetRestoresConfiguredState ==
    [][/\ reset =>
             /\ currentPage' = 1
             /\ filters' = NoFilters
             /\ sortConditions' = <<>>
             /\ columnWidths' = NoWidths
             /\ columns' = configOptions.columns
             /\ columnTitles' = configOptions.columnTitles
             /\ headerCellClasses' = configOptions.headerCellClasses
             /\ timers' # <<>>
       /\ (burst.by = "reset" /\ Len(loads') > Len(loads)) =>
             /\ loads'[Len(loads')].url.filtering = {}
             /\ loads'[Len(loads')].url.sorting = <<>>
             /\ loads'[Len(loads')].url.page = 1]_vars

\* reset was called after a column drop and a resize, and the load it
\* requested is in flight
C21_Witness ==
    /\ burst.by = "reset"
    /\ hist.drop.after = <<"name", "id">>
    /\ hist.resize.column = "id"
    /\ columns = <<"id", "name">>
    /\ columnWidths = NoWidths
    /\ filters = NoFilters
    /\ Len(loads) = 1
    /\ loads[1].url.filtering = {}
    /\ lastDone.outcome = "ok"

\* C22: with selectable on, the Home key resets the instance, selection
\* included: after it there is no filter, no sort condition and no
\* selected row.
C22_HomeClearsSelection ==
    [][(configOptions.selectable /\ handleKeyDown("Home")) =>
          /\ filters' = NoFilters
          /\ sortConditions' = <<>>
          /\ selectedRows' = {}]_vars

\* the parameters getServerParams gives for page p in the state at hand
ServerParams(p) == getServerParams(p, rowsPerPage, filters, sortConditions)

\* what the claim says of the parameters, the request and the cache key
UrlContract ==
    /\ \A p \in 1..3 :
           /\ ServerParams(p).page = p
           /\ ServerParams(p).perPage = rowsPerPage
           /\ ServerParams(p).offset = (p - 1) * rowsPerPage
           /\ "filtering" \in DOMAIN ServerParams(p) <=> DOMAIN filters # {}
           /\ "sorting" \in DOMAIN ServerParams(p) <=> sortConditions # <<>>
    \* the url read from the cache is the url fetched and the key written
    /\ \A u \in DOMAIN cache : cache[u].url = u

\* the key a step reads from the cache, and the key it writes, is the url of
\* a load in flight, which keeps its url from start to end
SameUrlThroughout ==
    /\ Len(loads') = Len(loads) =>
           \A i \in 1..Len(loads) :
               loads'[i].pc # loads[i].pc => loads'[i].url = loads[i].url
    /\ hist'.read.n # hist.read.n =>
           \E i \in 1..Len(loads) :
               loads[i].pc = "cache" /\ hist'.read.url = loads[i].url
    /\ \A u \in DOMAIN cache' \ DOMAIN cache :
           \E i \in 1..Len(loads) : loads[i].pc = "fetch" /\ loads[i].url = u

\* C23 as stated: the parameters are as above, and the request of a load
\* carries, for each filter set by search, filtering[name] = the value
\* given.
C23_RequestCarriesFilterValue ==
    [][/\ UrlContract
       /\ SameUrlThroughout
       /\ Len(loads') > Len(loads) =>
             loads'[Len(loads')].url.filtering =
                 {<<c, filters[c]>> : c \in DOMAIN filters}]_vars

\* C23: getServerParams(page) gives perPage = rowsPerPage and offset =
\* (page - 1) * perPage, with filtering only if a filter is set and sorting
\* only if a sort condition exists; the url built is the request fetched
\* and the cache key; the request of a load carries, for each filter,
\* filtering[name] = the value sanitised by getServerParams and again by
\* buildUrl.
C23_RequestCarriesSanitizedFilter ==
    [][/\ UrlContract
       /\ SameUrlThroughout
       /\ Len(loads') > Len(loads) =>
             /\ loads'[Len(loads')].url = CurrentUrl
             /\ loads'[Len(loads')].url.filtering =
                    {<<c, sanitizeHTML(sanitizeHTML(filters[c]))>> :
                        c \in DOMAIN filters}]_vars

\* after a search for a value that holds a script element, the request
\* fetched and written to the cache carries the value without the element
C23_Witness ==
    /\ filters = FilterOf("name", "a<script>x</script>")
    /\ Len(loads) = 1
    /\ loads[1].pc = "put"
    /\ loads[1].url.filtering = {<<"name", "a">>}
    /\ loads[1].url \in DOMAIN cache

\* the state loaded back is the state saved, but for the columns: options
\* are those of the new instance, item the item read, strict says whether
\* the page and the rows per page are to be equal whatever they are
RoundTrip(options, item, strict) ==
    LET configured(c) ==
            \E k \in 1..Len(options.columns) : options.columns[k] = c
        kept == SelectSeq(item.columns, configured)
        missing(c) == \A k \in 1..Len(kept) : kept[k] # c
    IN  /\ columns' = kept \o SelectSeq(options.columns, missing)
        /\ columnWidths' = item.columnWidths
        /\ sortConditions' = item.sortConditions
        /\ filters' = item.filters
        /\ strict \/ item.currentPage >= 1 => currentPage' = item.currentPage
        /\ strict \/ item.rowsPerPage \in AllowedRowsPerPage =>
               rowsPerPage' = item.rowsPerPage

\* the item written to localStorage is the state at the time of the call
\* of saveStateToStorage
SavedIsState ==
    /\ saveTimer' # saveTimer /\ saveTimer' # NoTimer
           /\ saveTimer'.left = DEBOUNCE_TIMEOUT_MS =>
           saveTimer'.item = stateToSave'
    /\ stored' # stored => stored' = saveTimer.item

\* C24: with persistState on, the state saved and loaded back by a new
\* instance has an equal column order, columnWidths, sortConditions,
\* filters, currentPage and rowsPerPage, except that saved columns no
\* longer configured are dropped and configured columns missing from the
\* saved order are appended.
C24_RoundTripRestoresState ==
    [][/\ SavedIsState
       /\ \A options \in RoundOptionsInputs :
              stored # NoItem /\ reload(options) =>
                  RoundTrip(options, stored, TRUE)]_vars

\* C24, for the item of a state whose page is at least 1 and whose rows
\* per page is one of the values allowed: the round trip restores it.
C24_RoundTripOfStateInRange ==
    [][/\ SavedIsState
       /\ \A options \in RoundOptionsInputs :
              stored # NoItem /\ reload(options) =>
                  RoundTrip(options, stored, FALSE)]_vars

\* a state of page 2 with a filter, a sort, a width and a column order of
\* its own was saved, and a new instance without the column name read it
C24_Witness ==
    /\ hist.reload.done
    /\ hist.reload.item # NoItem
    /\ hist.reload.item.columns = <<"name", "id">>
    /\ hist.reload.item.currentPage = 2
    /\ configOptions.columns = <<"id", "email">>
    /\ columns = <<"id", "email">>
    /\ columnWidths = hist.reload.item.columnWidths
    /\ DOMAIN columnWidths = {"name"}
    /\ filters = NameFilter
    /\ currentPage = 2

\* the rows of the table are those of the records rows, in order
ViewShows(rows) ==
    /\ Len(nodes'.table) = Len(rows)
    /\ \A k \in 1..Len(rows) : nodes'.table[k].key = ToStr(rows[k])

\* the step applies the response of the load i to the state and the view
Applies(i) ==
    /\ Len(loads') = Len(loads) - 1
    /\ loads' = RemoveAt(loads, i)
    /\ data' = ResponseTo(loads[i].url)
    /\ lastRender'.data = data'
    /\ ViewShows(data')

\* C25: loads are neither cancelled nor ordered.  The start of a load
\* leaves the loads in flight as they are, every load in flight can
\* complete, the response of a load is applied when it arrives, be it
\* that of a request older than one answered before or for a url the
\* state has left, and the data and the view change with no other step:
\* a stale response applied last stays in state.data and in the view.
C25_LoadsNeitherCancelledNorOrdered ==
    [][/\ Len(loads') >= Len(loads) =>
              \A i \in 1..Len(loads) : loads'[i] = loads[i]
       /\ Len(loads') < Len(loads) => \E i \in 1..Len(loads) : Applies(i)
       /\ \A i \in 1..Len(loads) :
              ENABLED fetchResolve(i, ResponseTo(loads[i].url), 30)
       /\ data' # data \/ nodes' # nodes => Len(loads') < Len(loads)]_vars

\* the response to the request for page 1 arrived after that for page 2
\* and nothing is pending: the state is at page 2, the data and the view
\* are those of page 1
C25_Witness ==
    /\ currentPage = 2
    /\ loads = <<>>
    /\ timers = <<>>
    /\ lastDone.outcome = "ok"
    /\ Len(data) = 1
    /\ data[1] = 1
    /\ Len(nodes.table) = 1
    /\ nodes.table[1].key = "1"
    /\ Len(lastRender.before) = 1
    /\ lastRender.before[1].key = "2"

\* the load i was awaiting its fetch when destroy() was called, no timeout
\* of the debounced loader being set
PendingAtDestroy(i) ==
    /\ hist.destroy.done
    /\ hist.destroy.timers = 0
    /\ \E k \in 1..Len(hist.destroy.pending) : hist.destroy.pending[k] = loads[i]
    /\ loads[i].pc = "fetch"
    /\ ~listeners.content

\* C26: when destroy() is called while a fetch is pending, the fetch runs
\* to completion and its continuation is a no-op: it renders nothing into
\* the container and attaches no event handler to it again.
C26_ContinuationAfterDestroyIsNoop ==
    [][\A i \in 1..Len(loads) :
          /\ PendingAtDestroy(i)
          /\ fetchResolve(i, ResponseTo(loads[i].url), 30)
          => /\ ~listeners'.content
             /\ listeners' = listeners]_vars

\* C26, the part that holds: the fetch pending at destroy() is able to
\* complete, and what its continuation renders is not in the container.
C26_ContinuationRendersOutsideContainer ==
    [][\A i \in 1..Len(loads) :
          /\ PendingAtDestroy(i)
          /\ fetchResolve(i, ResponseTo(loads[i].url), 30)
          => ~listeners'.content]_vars

\* C27: every load invokes the preDataLoad hook before it checks the
\* durable cache: a load that awaits the cache read has called the hook
\* in this attempt, and a load that ends, served from the cache or fetched
\* from the network, has called it.
C27_HookBeforeCacheCheck ==
    [][/\ \A i \in 1..Len(loads) :
              loads[i].pc = "cache" =>
                  preDataLoadCalls(loads[i]) >= loads[i].attempt
       /\ Len(loads') < Len(loads) => preDataLoadCalls(lastDone') >= 1]_vars

\* C27, what the code does: the hook is called once per request issued,
\* after the cache read, so a load served from the cache ends without a
\* call and a load fetched from the network ends with one.
C27_HookOnlyBeforeFetch ==
    [][Len(loads') < Len(loads) =>
          /\ lastDone'.outcome = "cached" => preDataLoadCalls(lastDone') = 0
          /\ lastDone'.outcome = "ok" => preDataLoadCalls(lastDone') >= 1]_vars

\* C28: a retry of a load that failed transiently issues the same request
\* (the same url) as the attempt that failed.
C28_RetryIssuesSameUrl ==
    [][\A i \in 1..Len(loads) :
          /\ fetchFail(i, "transient")
          /\ shouldRetry(loads[i].attempt, "transient")
          => /\ loads'[i].attempt = loads[i].attempt + 1
             /\ loads'[i].url = loads[i].url]_vars

\* C28, what the code does: the retry is loadData(attempt + 1), which
\* builds its url from the state at the time of the retry.
C28_RetryIssuesCurrentUrl ==
    [][\A i \in 1..Len(loads) :
          /\ fetchFail(i, "transient")
          /\ shouldRetry(loads[i].attempt, "transient")
          => /\ loads'[i].attempt = loads[i].attempt + 1
             /\ loads'[i].url = CurrentUrl]_vars

\* C29: after any number of setupAllHandlers calls the root container
\* carries exactly one handler per interaction class (click, keydown, the
\* drag events, the pointer-down of the resize), so one pointer-down on a
\* resize handle starts exactly one resize, and the number of listeners
\* does not grow with the number of loads.
C29_OneHandlerPerClass ==
    /\ listeners.click = 1
    /\ listeners.keydown = 1
    /\ listeners.drag = 1
    /\ listeners.mousedown = 1
    /\ hist.resize.n # 0 \/ hist.resize.starts # 0 => hist.resize.starts = 1

\* C29, what the code does: click, keydown and drag handlers stay at one
\* per class, and each load that ends adds one pointer-down handler, each
\* of which calls #startResize on a pointer-down.
C29_OnlyResizeHandlersGrow ==
    [][/\ listeners'.click = 1 /\ listeners'.keydown = 1 /\ listeners'.drag = 1
       /\ listeners'.mousedown =
              IF Len(loads') < Len(loads) THEN listeners.mousedown + 1
              ELSE listeners.mousedown
       /\ hist'.resize # hist.resize =>
              hist'.resize.starts = listeners.mousedown]_vars

\* a call of the public interface whose recipe assigns to the draft
CallOfSnapshot ==
    \/ \E merge \in BOOLEAN : search(NameFilter, merge)
    \/ reset
    \/ \E n \in {1, 2} : gotoPage(n)

\* C30: setState gives a new snapshot, and triggers the storage write and
\* the url rewrite, only if the recipe leaves the draft different in value
\* from the state: a call that assigns the values in force (search with
\* the filters in force, reset on an initial state) triggers no
\* persistence.
C30_EqualValuesNoPersistence ==
    [][CallOfSnapshot /\ stateVars' = stateVars =>
          saveTimer' = saveTimer /\ location' = location]_vars

\* C30, what the code does: the test is nextState !== state, and produce
\* gives a new object whenever the recipe assigns an object, array or Map
\* that is not the one held: search and reset always trigger the storage
\* write, gotoPage only for a page that is not the current one.
C30_NewObjectsAlwaysPersist ==
    [][/\ (\E merge \in BOOLEAN : search(NameFilter, merge)) \/ reset =>
              saveTimer' = [left |-> DEBOUNCE_TIMEOUT_MS, item |-> stateToSave']
       /\ \A n \in {1, 2} : gotoPage(n) /\ n = currentPage =>
              saveTimer' = saveTimer /\ location' = location]_vars

\* the footers that can be seen with the view of mode fmt: the footer of
\* the table is inside the table, which is hidden in the other modes; the
\* footers of the list and of the cards are children of the content
\* container and no statement hides them
VisibleFooters(fs, fmt) ==
    {m \in RenderType : fs[m].made /\ (m = "table" => fmt = "table")}

\* the footer f shows the page, the rows per page and the total of the
\* state after the step
ShowsStateAfter(f) ==
    /\ f.filled
    /\ f.page = currentPage'
    /\ f.perPage = rowsPerPage'
    /\ f.total = totalRecords'

\* a step of SpecFooter that renders
RenderStep ==
    \/ \E mode \in RenderType : setRenderMode(mode)
    \/ \E i \in 1..Len(loads) : fetchResolve(i, ResponseTo(loads[i].url), 30)

\* C31: after every render, in each of the three modes and after any
\* sequence of mode switches, the footer displayed with the active view is
\* rebuilt from the current state, and no footer showing the values of an
\* earlier state is visible.
C31_FooterShowsCurrentState ==
    [][RenderStep =>
          /\ \E m \in VisibleFooters(footers', format') :
                 ShowsStateAfter(footers'[m])
          /\ \A m \in VisibleFooters(footers', format') :
                 footers'[m].filled => ShowsStateAfter(footers'[m])]_vars

\* C31, what the code does: every render rebuilds one footer from the
\* current state, that of the table once the table exists and else the
\* non-table footer created last; a table instance that never left the
\* table mode shows it.
C31_TargetFooterRebuilt ==
    [][RenderStep =>
          /\ ShowsStateAfter(footers'[footerTarget(footers')])
          /\ footers'.list.made \/ footers'.mobile_cards.made
                 \/ \E m \in VisibleFooters(footers', format') :
                        ShowsStateAfter(footers'[m])]_vars

\* the pages first .. last, in order
PageRange(first, last) == [k \in 1..Max(0, last - first + 1) |-> first + k - 1]

\* the labels of the numbered buttons of the pagination items, in order
NumberLabels(items) ==
    LET isNumber(item) == item.kind = "number"
        numbered == SelectSeq(items, isNumber)
    IN  [k \in 1..Len(numbered) |-> numbered[k].label]

\* what the claim says of the pagination items shown for page, rpp, total
PaginationAsClaimed(items, page, rpp, total) ==
    LET pages == Max(1, (total + rpp - 1) \div rpp)
        endPage == Min(pages, page + 2)
        ellipses == {k \in 1..Len(items) : items[k].kind = "ellipsis"}
        leading == IF page > 3 THEN <<1>> ELSE <<>>
        trailing == IF endPage < pages - 2 THEN <<pages>> ELSE <<>>
    IN  /\ items[1].kind = "prev"
        /\ items[1].disabled <=> page = 1
        /\ items[Len(items)].kind = "next"
        /\ items[Len(items)].disabled <=> page = pages
        /\ \A k \in 2..(Len(items) - 1) : items[k].kind \in {"number", "ellipsis"}
        /\ NumberLabels(items) =
               leading \o PageRange(Max(1, page - 2), endPage) \o trailing
        \* the ellipsis after the leading 1, the ellipsis before the last page
        /\ 3 \in ellipses <=> page > 4
        /\ (Len(items) - 2) \in ellipses \ {3} <=> endPage < pages - 3
        /\ ellipses \subseteq {3, Len(items) - 2}

\* C32: for every currentPage, rowsPerPage and totalRecords, with
\* totalPages = max(1, ceil(totalRecords / rowsPerPage)) and endPage =
\* min(totalPages, currentPage + 2): prev is disabled iff currentPage = 1
\* and next iff currentPage = totalPages; the numbered buttons are exactly
\* max(1, currentPage - 2) .. endPage; a leading 1 appears iff currentPage
\* > 3, with an ellipsis iff currentPage > 4; a trailing last-page button
\* appears iff endPage < totalPages - 2, with an ellipsis iff endPage <
\* totalPages - 3.
C32_PaginationItems ==
    \A m \in RenderType :
        footers[m].filled =>
            PaginationAsClaimed(footers[m].pagination, footers[m].page,
                                footers[m].perPage, footers[m].total)

\* page 5 of 11 is rendered: 1, an ellipsis, 3 .. 7, an ellipsis, 11
C32_Witness ==
    /\ footers.table.filled
    /\ footers.table.page = 5
    /\ footers.table.total = 110
    /\ footers.table.perPage = 10
    /\ currentPage = 5
    /\ NumberLabels(footers.table.pagination) = <<1, 3, 4, 5, 6, 7, 11>>
    /\ footers.table.pagination[3].kind = "ellipsis"
    /\ footers.table.pagination[9].kind = "ellipsis"
    /\ Len(footers.table.pagination) = 11

(***************************************************************************)
(* C33: a call of TranslationManager.get(lang) issues at most              *)
(* maxRetries + 1 fetches for lang and then at most maxRetries + 1 for     *)
(* en_US, none for any other language; it falls back at most once; when it *)
(* returns, the bundle is the one of lang or of en_US and is in the cache  *)
(* under the language it was fetched for at the step that returns it; it   *)
(* throws only after the fetches of en_US are used up; and a call that is  *)
(* suspended ends, returning or throwing.                                  *)
(***************************************************************************)
GetWithinLimits ==
    LET c == translationManager.call
    IN  /\ \A l \in Langs :
              c.fetched[l] <= IF l \in {c.requested, fallbackLang}
                              THEN maxRetries + 1 ELSE 0
        /\ c.fallbacks <= 1
        /\ c.fallbacks = 1 =>
              /\ c.requested # fallbackLang
              /\ c.lang = fallbackLang
              /\ c.fetched[c.requested] = maxRetries + 1
        /\ c.pc = "returned" =>
              /\ c.result = c.lang
              /\ c.result \in {c.requested, fallbackLang}
        /\ c.pc = "thrown" =>
              /\ c.lang = fallbackLang
              /\ c.fetched[fallbackLang] = maxRetries + 1

\* the step by which a call returns leaves the bundle returned in the cache
ReturnsCached ==
    /\ translationManager'.call.pc = "returned"
    /\ translationManager'.call # translationManager.call
    => translationManager'.call.result \in translationManager'.cache

C33_GetTerminates ==
    /\ []GetWithinLimits
    /\ [][ReturnsCached]_vars
    /\ translationManager.call.pc \in {"fetch", "wait"}
          ~> translationManager.call.pc \in {"returned", "thrown"}

\* get("pt_PT") used its four fetches, fell back, and returned the bundle
\* of en_US at the third fetch of it
C33_Witness ==
    /\ translationManager.call.pc = "returned"
    /\ translationManager.call.requested = "pt_PT"
    /\ translationManager.call.result = "en_US"
    /\ translationManager.call.fetched["pt_PT"] = maxRetries + 1
    /\ translationManager.call.fetched["en_US"] = 3
    /\ "en_US" \in translationManager.cache
    /\ "pt_PT" \notin translationManager.cache

(***************************************************************************)
(* C34: a continuation of preloadNextPage leaves the state, the loading    *)
(* flag and everything rendered as they are, the error panel included, and *)
(* writes at most the cache entry of the url it asked for; a call that     *)
(* goes on is for page currentPage + 1 of the state at the call, a page    *)
(* within the pages of totalRecords, and was not made under a data-saver   *)
(* or slow-connection signal; a call whose page is validly cached ends     *)
(* without a fetch; a failed fetch stores nothing.                         *)
(***************************************************************************)
PreloadContinues == preloads' # preloads /\ loads' = loads

ValidlyCached(url) ==
    /\ url \in DOMAIN cache
    /\ isValidCache(cache[url])
    /\ cache[url].age < cacheExpiry

PreloadLeavesGrid ==
    PreloadContinues =>
        /\ UNCHANGED <<stateVars, selVars, isLoading, viewVars>>
        /\ \A u \in DOMAIN cache' :
              (u \notin DOMAIN cache \/ cache'[u] # cache[u])
                  => /\ u = preloads'.last.url
                     /\ preloads'.last.outcome = "stored"
        /\ DOMAIN cache \subseteq DOMAIN cache'

PreloadStartsForNextPage ==
    Len(preloads'.calls) > Len(preloads.calls) =>
        LET call == preloads'.calls[Len(preloads'.calls)]
        IN  /\ preloads'.last.conn \notin {"saveData", "slow-2g", "2g"}
            /\ call.url = UrlOf(currentPage' + 1, rowsPerPage', filters',
                                sortConditions')
            /\ currentPage' + 1 <= totalPages(totalRecords', rowsPerPage')
            /\ totalRecords' > currentPage' * rowsPerPage'

PreloadSkipsCached ==
    \A j \in 1..Len(preloads.calls) :
        /\ PreloadContinues
        /\ preloads.calls[j].pc = "cache"
        /\ ValidlyCached(preloads.calls[j].url)
        => /\ Len(preloads'.calls) < Len(preloads.calls)
           /\ preloads'.last.outcome = "cached"
           /\ UNCHANGED cache

C34_PreloadOnlyCaches ==
    [][PreloadLeavesGrid /\ PreloadStartsForNextPage
       /\ PreloadSkipsCached]_vars

\* page 1 of two is shown, with its footer; the preload of page 2 has
\* stored its answer in the cache, and no error is shown
C34_Witness ==
    /\ preloads.last.outcome = "stored"
    /\ preloads.last.url.page = 2
    /\ currentPage = 1
    /\ data = <<1>>
    /\ totalRecords = 15
    /\ preloads.last.url \in DOMAIN cache
    /\ cache[preloads.last.url].data = <<2>>
    /\ ~errorShown
    /\ loads = <<>>

(***************************************************************************)
(* C35: every index in selectedRows is an index of the data in force, so   *)
(* getSelectedRows has a record for every index it maps.                   *)
(***************************************************************************)
C35_SelectionWithinData ==
    /\ \A index \in selectedRows : 0 <= index /\ index < Len(data)
    /\ \A entry \in getSelectedRows(selectedRows, data) : entry.record # <<>>

(***************************************************************************)
(* C36: the current-row cursor is -1 or an index of the data in force.     *)
(***************************************************************************)
C36_CursorWithinData ==
    currentRowIndex = -1
    \/ (0 <= currentRowIndex /\ currentRowIndex < Len(data))

(***************************************************************************)
(* C37: with the cache in use, the invalidation at the start of a load     *)
(* removes entries only if a load ran before it in this instance and the   *)
(* filter set differs from the filter set of that load; the first load of  *)
(* an instance leaves the entries of earlier instances in place.           *)
(***************************************************************************)
C37_ClearsOnlyOnFilterChange ==
    hist.start.seen /\ ~hist.start.kept =>
        hist.start.again /\ hist.start.filtersChanged

\* C37: the first load of an instance constructed over a cache that holds
\* a fresh entry for its url is served from the cache, without a request
C37_FirstLoadServedFromCache ==
    [][/\ hist.reload.done
       /\ ~hist.start.seen
       /\ hist'.start.seen
       /\ hist'.start.hadEntries
       /\ CurrentUrl \in DOMAIN cache
       /\ ValidlyCached(CurrentUrl)
       => CurrentUrl \in DOMAIN cache']_vars

(***************************************************************************)
(* C38: once destroy() has returned, no loadData starts: no invocation is  *)
(* added to those in flight, no request is issued, and the loading flag is *)
(* not raised.                                                             *)
(***************************************************************************)
C38_NoLoadAfterDestroy ==
    [][hist.destroy.done =>
          /\ Len(loads') <= Len(loads)
          /\ isLoading' => isLoading]_vars

\* C38: destroy() leaves no timeout of the debounced loader set
C38_DestroyCancelsTimers ==
    [][destroy => timers' = <<>>]_vars

(***************************************************************************)
(* C39: after every render the rows displayed as selected (snap-selected,  *)
(* aria-selected) are exactly the rows whose data-index is in              *)
(* selectedRows, also where the render reuses the elements of records      *)
(* whose position changed.                                                 *)
(***************************************************************************)
ShownSelected(ns) == {ns[j].index : j \in {k \in 1..Len(ns) : ns[k].selected}}

RowIndexes(ns) == {ns[j].index : j \in 1..Len(ns)}

C39_RenderShowsSelection ==
    [][lastRender' # lastRender \/ nodes'[format'] # nodes[format] =>
          ShownSelected(nodes'[format'])
              = selectedRows' \cap RowIndexes(nodes'[format'])]_vars

\* C39, what the code does: highlightSelectedRows, which the toggle of a
\* row and clearSelection call, leaves exactly the rows of the selected
\* indexes displayed as selected
C39_ToggleShowsSelection ==
    [][selectedRows' # selectedRows =>
          ShownSelected(nodes'[format'])
              = selectedRows' \cap RowIndexes(nodes'[format'])]_vars

(***************************************************************************)
(* C40: whenever no load is in flight the loading flag is down and no      *)
(* loading overlay is in the container, after loads that overlapped,       *)
(* failed or were retried; and the loads in flight come to an end.         *)
(***************************************************************************)
OverlaysShown ==
    IF listeners.content
    THEN {c \in OverlayTargets : overlays.at[c] > 0}
    ELSE {}

LoadingHidden == loads = <<>> => ~isLoading /\ OverlaysShown = {}

C40_LoadsEndHidden ==
    /\ []LoadingHidden
    /\ loads # <<>> ~> loads = <<>>

\* the load of page 2 was retried until the retries were used up and has
\* failed; the list is shown; no load is in flight and nothing is left of
\* the loading indicator
C40_Witness ==
    /\ loads = <<>>
    /\ timers = <<>>
    /\ currentPage = 2
    /\ format = "list"
    /\ lastDone.outcome = "error"
    /\ lastDone.attempt = retryAttempts + 1
    /\ retryAttempts = MaxRetryAttempts
    /\ errorShown
    /\ ~isLoading
    /\ OverlaysShown = {}

\* C40: an overlay is in the container only while the loading flag is up,
\* and there is at most one
C40_OneOverlayWhileLoading ==
    /\ ~isLoading => \A c \in OverlayTargets : overlays.at[c] = 0
    /\ \A c, d \in OverlayTargets :
           overlays.at[c] > 0 /\ overlays.at[d] > 0 => c = d /\ overlays.at[c] = 1

====
